---- MODULE Spec2Model ----
(***************************************************************************)
(* OAuth 2.0 / OpenID Connect test server (src/test-integration.ts).       *)
(*                                                                         *)
(* Strings are sequences of fragments (a fragment is a character or an     *)
(* indivisible run of characters such as "sessionId" or "abc"), so that    *)
(* the string operations of the code (split, trim, startsWith, substring,  *)
(* concatenation, encodeURIComponent) are computed and not assumed.        *)
(* The JavaScript value undefined is the reserved one-fragment string      *)
(* Undefined, which no input alphabet contains.                            *)
(***************************************************************************)
EXTENDS Integers, Sequences, FiniteSets, TLC

VARIABLES
    sessions,     \* Map<string, UserSession>: session id -> session object
    logs,         \* LogEntry[]: the log buffer
    logClients,   \* Response[]: open /api/logs connections (request ids)
    sent,         \* per open /api/logs connection: the data written to it
    inflight,     \* /callback requests suspended at an await: request id -> frame
    outbound,     \* the calls made to the identity provider, in order
    resp,         \* the HTTP response sent by the latest step (NoResponse if none)
    nextRid,      \* number of HTTP requests received so far
    process,      \* "running", or "exited" once an unhandled rejection ended it
    broken        \* /api/logs connections whose write throws -> throws caught so far

vars == <<sessions, logs, logClients, sent, inflight, outbound, resp, nextRid,
          process, broken>>

----------------------------------------------------------------------------
(* Bounds of the model *)

\* HTTP requests received in one behaviour
MaxRequests == 2
\* fragments in a cookie value (specification SpecResolve)
MaxValLen == 2
\* cookies in a Cookie header (specification SpecResolve)
MaxCookies == 2

----------------------------------------------------------------------------
(* JavaScript values and string operations *)

Undefined == <<"<undefined>">>

\* JavaScript truthiness of a string-or-undefined value
Truthy(s) == s # Undefined /\ s # <<>>

Range(f) == {f[i] : i \in DOMAIN f}

\* String.prototype.startsWith
StartsWith(s, prefix) ==
    /\ Len(s) >= Len(prefix)
    /\ SubSeq(s, 1, Len(prefix)) = prefix

\* String.prototype.substring(from, to) with 0 <= from <= to
Substring(s, from, to) ==
    SubSeq(s, from + 1, IF to < Len(s) THEN to ELSE Len(s))

\* String.prototype.split(sep) for a one-fragment separator
RECURSIVE Split(_, _)
Split(s, sep) ==
    IF \E i \in 1..Len(s) : s[i] = sep
    THEN LET i == CHOOSE k \in 1..Len(s) :
                      s[k] = sep /\ \A j \in 1..(k - 1) : s[j] # sep
         IN  <<SubSeq(s, 1, i - 1)>> \o Split(SubSeq(s, i + 1, Len(s)), sep)
    ELSE <<s>>

\* String.prototype.trim
RECURSIVE Trim(_)
Trim(s) ==
    IF s = <<>> THEN s
    ELSE IF Head(s) = " " THEN Trim(Tail(s))
    ELSE IF s[Len(s)] = " " THEN Trim(SubSeq(s, 1, Len(s) - 1))
    ELSE s

\* encodeURIComponent, fragment by fragment: the reserved characters that
\* occur in the model's strings are percent-encoded, the others are kept
EncodeFragment(c) ==
    CASE c = ":" -> "%3A"
      [] c = "/" -> "%2F"
      [] c = " " -> "%20"
      [] c = "=" -> "%3D"
      [] c = ";" -> "%3B"
      [] c = "&" -> "%26"
      [] c = "?" -> "%3F"
      [] OTHER   -> c

encodeURIComponent(s) == [i \in 1..Len(s) |-> EncodeFragment(s[i])]

----------------------------------------------------------------------------
(* Configuration (environment unset: the fallbacks of the source) *)

keycloakConfig ==
    [ endpoint          |-> <<"https", ":", "/", "/", "auth-dev.curriculobe.com.br",
                              "/", "realms", "/", "bestema-dev">>,
      clientId          |-> <<>>,
      clientSecret      |-> <<>>,
      redirectUri       |-> <<"http", ":", "/", "/", "localhost", ":", "3000",
                              "/", "callback">>,
      logoutRedirectUri |-> <<"http", ":", "/", "/", "localhost", ":", "3000",
                              "/", "logout-success">>,
      scope             |-> <<"openid", " ", "profile", " ", "email">> ]

----------------------------------------------------------------------------
(* Logging: addLog *)

\* logs.slice(-100) keeps the last LogLimit entries
LogLimit == 100

\* The log-related state, threaded through the addLog calls of one handler
LogState ==
    [logs |-> logs, sent |-> sent, logClients |-> logClients, broken |-> broken]

\* Faulty variant of addLog: a full buffer keeps its oldest entries
addLogKeepsOldest(L, message, type) ==
    LET logEntry == [message |-> message, type |-> type]
        pushed   == Append(L.logs, logEntry)
        kept     == IF Len(pushed) > LogLimit
                    THEN SubSeq(pushed, 1, LogLimit)
                    ELSE pushed
    IN  [ logs |-> kept,
          sent |-> [c \in DOMAIN L.sent |->
                       IF c \in Range(L.logClients) /\ c \notin DOMAIN L.broken
                       THEN Append(L.sent[c], logEntry)
                       ELSE L.sent[c]],
          logClients |-> L.logClients,
          broken |-> [c \in DOMAIN L.broken |->
                         IF c \in Range(L.logClients)
                         THEN L.broken[c] + 1
                         ELSE L.broken[c]] ]

addLog(L, message, type) ==
    LET logEntry == [message |-> message, type |-> type]
        pushed   == Append(L.logs, logEntry)
        kept     == IF Len(pushed) > LogLimit
                    THEN SubSeq(pushed, Len(pushed) - LogLimit + 1, Len(pushed))
                    ELSE pushed
    IN  [ logs |-> kept,
          sent |-> [c \in DOMAIN L.sent |->
                       IF c \in Range(L.logClients) /\ c \notin DOMAIN L.broken
                       THEN Append(L.sent[c], logEntry)
                       ELSE L.sent[c]],
          logClients |-> L.logClients,
          broken |-> [c \in DOMAIN L.broken |->
                         IF c \in Range(L.logClients)
                         THEN L.broken[c] + 1
                         ELSE L.broken[c]] ]

----------------------------------------------------------------------------
(* Sessions *)

\* The outputs generateSessionId can produce
GenIds == {<<"m1">>, <<"m2">>}

\* userInfo is optional: <<>> when the property is absent, <<claims>> otherwise
NoUserInfo == <<>>

\* sessions.get(id): the entry, or Absent
Absent == [ idToken |-> Undefined, accessToken |-> Undefined,
            refreshToken |-> Undefined, userInfo |-> NoUserInfo,
            isAuthenticated |-> FALSE, obj |-> 0 ]

Has(store, id) == id \in DOMAIN store

Get(store, id) == IF Has(store, id) THEN store[id] ELSE Absent

\* sessions.set(id, session)
Put(store, id, session) ==
    [k \in DOMAIN store \cup {id} |-> IF k = id THEN session ELSE store[k]]

\* sessions.delete(id)
Delete(store, id) == [k \in DOMAIN store \ {id} |-> store[k]]

\* getSessionId(req)
getSessionId(req) ==
    LET cookieHeader == req.cookie
        cookies == IF Truthy(cookieHeader)
                   THEN LET parts == Split(cookieHeader, ";")
                        IN  [i \in 1..Len(parts) |-> Trim(parts[i])]
                   ELSE <<>>
        hits == {i \in 1..Len(cookies) : StartsWith(cookies[i], <<"sessionId", "=">>)}
    IN  IF hits # {}
        THEN LET first == CHOOSE i \in hits : \A j \in hits : i <= j
             IN  Split(cookies[first], "=")[2]
        ELSE IF Truthy(req.authorization) THEN req.authorization
        ELSE <<"default">>

----------------------------------------------------------------------------
(* HTTP requests and responses *)

\* `${value}` in a template literal
Str(v) == IF v = Undefined THEN <<"undefined">> ELSE v

\* The Cookie header a browser sends for one sessionId cookie
CookieOf(id) == <<"sessionId", "=">> \o id

NoRequest == [cookie |-> Undefined, authorization |-> Undefined, code |-> Undefined]

\* Requests of the main specification: no header at all (the fallback id,
\* for which /callback mints one) or the sessionId cookie of an id that
\* generateSessionId can also produce; other headers are the subject of
\* SpecResolve
Headers ==
    { [cookie |-> Undefined,          authorization |-> Undefined],
      [cookie |-> CookieOf(<<"m1">>), authorization |-> Undefined] }

\* req.query.code of /callback?code=a&code=b : an array, not a string
CodeList == <<"<array>", "a", "b">>

\* typeof v === 'string' (undefined apart)
IsString(v) == v = <<>> \/ Head(v) # "<array>"

\* req.query.code: absent, empty, a string, an array
Codes == {Undefined, <<>>, <<"abc">>, CodeList}

Requests ==
    { [cookie |-> h.cookie, authorization |-> h.authorization, code |-> c] :
          h \in Headers, c \in Codes }

PlainRequests == {r \in Requests : r.code = Undefined}

NoBody == [ server |-> Undefined, user |-> Undefined, userInfo |-> NoUserInfo,
            sessions |-> 0, logs |-> 0, sessionId |-> Undefined ]

\* The error and message properties of a 500 JSON body (no such body)
NoError == [error |-> Undefined, message |-> Undefined]

NoResponse ==
    [ rid |-> 0, route |-> "none", req |-> NoRequest, sessionId |-> Undefined,
      status |-> 0, location |-> Undefined, setCookie |-> Undefined,
      body |-> NoBody, error |-> NoError ]

\* res.redirect(location), after an optional res.setHeader('Set-Cookie', ...)
Redirect(rid, route, req, sid, location, cookie) ==
    [ rid |-> rid, route |-> route, req |-> req, sessionId |-> sid,
      status |-> 302, location |-> location, setCookie |-> cookie,
      body |-> NoBody, error |-> NoError ]

\* res.send / res.sendFile / res.json with status 200
Ok(rid, route, req, sid, body) ==
    [ rid |-> rid, route |-> route, req |-> req, sessionId |-> sid,
      status |-> 200, location |-> Undefined, setCookie |-> Undefined,
      body |-> body, error |-> NoError ]

\* res.status(500).json({error, message, timestamp}) of the error middleware
\* (the timestamp is left out)
ServerError(rid, req, sid, message) ==
    [ rid |-> rid, route |-> "error middleware", req |-> req, sessionId |-> sid,
      status |-> 500, location |-> Undefined, setCookie |-> Undefined,
      body |-> NoBody,
      error |-> [error |-> <<"Internal server error">>, message |-> message] ]

----------------------------------------------------------------------------
(* The identity provider *)

\* Answers of the token endpoint to axios.post: a 2xx answer with its body
\* fields, a non-2xx answer (axios throws, error.response is set), or a
\* transport failure (axios throws, error.response is undefined)
TokenOk(idt, at, rt) ==
    [ ok |-> TRUE, status |-> 200, id_token |-> idt, access_token |-> at,
      refresh_token |-> rt, hasResponse |-> TRUE,
      error_description |-> Undefined, message |-> Undefined ]

TokenHttpError(st, desc) ==
    [ ok |-> FALSE, status |-> st, id_token |-> Undefined,
      access_token |-> Undefined, refresh_token |-> Undefined,
      hasResponse |-> TRUE, error_description |-> desc,
      message |-> <<"Request failed with status code">> ]

TokenNetworkError ==
    [ ok |-> FALSE, status |-> 0, id_token |-> Undefined,
      access_token |-> Undefined, refresh_token |-> Undefined,
      hasResponse |-> FALSE, error_description |-> Undefined,
      message |-> <<"connect ECONNREFUSED">> ]

TokenReplies ==
    { TokenOk(<<"IT">>, <<"AT">>, <<"RT">>),
      TokenOk(Undefined, <<"AT2">>, Undefined),
      TokenHttpError(400, <<"Code not valid">>),
      TokenNetworkError }

\* The claims the provider holds for the owner of an access token
ClaimsOf(at) ==
    IF at = <<"AT">>
    THEN [preferred_username |-> <<"joao">>,  email |-> <<"joao@example.com">>]
    ELSE [preferred_username |-> Undefined, email |-> <<"maria@example.com">>]

\* Claims of an account that has neither a username nor an e-mail address
NoNameClaims == [preferred_username |-> Undefined, email |-> Undefined]

\* Answers of the userinfo endpoint to axios.get with a bearer token (the
\* second account may have neither a username nor an e-mail address)
UserinfoReplies(bearer) ==
    { [ok |-> TRUE,  data |-> ClaimsOf(bearer)],
      [ok |-> TRUE,  data |-> IF bearer = <<"AT">> THEN ClaimsOf(bearer)
                              ELSE NoNameClaims],
      [ok |-> FALSE, data |-> ClaimsOf(bearer)] }

NoTokenReply ==
    [ ok |-> FALSE, status |-> 0, id_token |-> Undefined,
      access_token |-> Undefined, refresh_token |-> Undefined,
      hasResponse |-> FALSE, error_description |-> Undefined,
      message |-> Undefined ]

NoUserinfoReply == [ok |-> FALSE, data |-> ClaimsOf(Undefined)]

NoForm == [ grant_type |-> Undefined, client_id |-> Undefined,
            client_secret |-> Undefined, code |-> Undefined,
            redirect_uri |-> Undefined ]

\* axios.post(tokenEndpoint, params, ...); answered is set, and the answer
\* recorded, when the promise settles; storeAtArrival remembers the store the
\* request found, for the claims that refer to it after the request is over
TokenCall(rid, authCode) ==
    [ rid |-> rid, method |-> "POST",
      url |-> keycloakConfig.endpoint \o <<"/protocol/openid-connect/token">>,
      form |-> [ grant_type    |-> <<"authorization_code">>,
                 client_id     |-> keycloakConfig.clientId,
                 client_secret |-> keycloakConfig.clientSecret,
                 code          |-> authCode,
                 redirect_uri  |-> keycloakConfig.redirectUri ],
      authorization |-> Undefined,
      answered |-> FALSE, tokenReply |-> NoTokenReply,
      userinfoReply |-> NoUserinfoReply, storeAtArrival |-> <<>> ]

\* axios.get(userinfo, {headers: {Authorization: `Bearer ${access_token}`}})
UserinfoCall(rid, access_token) ==
    [ rid |-> rid, method |-> "GET",
      url |-> keycloakConfig.endpoint \o <<"/protocol/openid-connect/userinfo">>,
      form |-> NoForm,
      authorization |-> <<"Bearer", " ">> \o Str(access_token),
      answered |-> FALSE, tokenReply |-> NoTokenReply,
      userinfoReply |-> NoUserinfoReply, storeAtArrival |-> <<>> ]

\* The pending call of a request is the last one it made
PendingCall(calls, rid) ==
    CHOOSE i \in 1..Len(calls) : calls[i].rid = rid /\ ~calls[i].answered

TokenAnswered(calls, rid, reply) ==
    [calls EXCEPT ![PendingCall(calls, rid)].answered = TRUE,
                  ![PendingCall(calls, rid)].tokenReply = reply]

UserinfoAnswered(calls, rid, reply) ==
    [calls EXCEPT ![PendingCall(calls, rid)].answered = TRUE,
                  ![PendingCall(calls, rid)].userinfoReply = reply]

----------------------------------------------------------------------------
(* Route handlers.  Each action is one synchronous run of a handler (or of  *)
(* the continuation of an await), with every addLog call it makes.          *)

\* The request id of the request being received
NewRid == nextRid + 1

Running == process = "running"

CanReceive == Running /\ nextRid < MaxRequests

\* GET / : the dashboard page (a static asset), then one log entry
Root ==
    /\ CanReceive
    /\ LET L1 == addLog(LogState, <<"Main dashboard accessed">>, "info")
       IN  /\ logs' = L1.logs
           /\ sent' = L1.sent
           /\ broken' = L1.broken
    /\ resp' = Ok(NewRid, "/", NoRequest, Undefined, NoBody)
    /\ nextRid' = NewRid
    /\ UNCHANGED <<sessions, logClients, inflight, outbound, process>>

\* The user text of the /api/status payload
\* Faulty variant of UserStatus: the e-mail address is preferred to the username
UserStatusPrefersEmail(userSession) ==
    IF userSession.isAuthenticated
    THEN IF userSession.userInfo # NoUserInfo
         THEN LET claims   == userSession.userInfo[1]
                  username == IF Truthy(claims.email)
                              THEN claims.email
                              ELSE IF Truthy(claims.preferred_username)
                              THEN claims.preferred_username
                              ELSE <<"User">>
              IN  <<"Authenticated", " ", "(">> \o username \o <<")">>
         ELSE <<"Authenticated">>
    ELSE <<"Not Authenticated">>

UserStatus(userSession) ==
    IF userSession.isAuthenticated
    THEN IF userSession.userInfo # NoUserInfo
         THEN LET claims   == userSession.userInfo[1]
                  username == IF Truthy(claims.preferred_username)
                              THEN claims.preferred_username
                              ELSE IF Truthy(claims.email) THEN claims.email
                              ELSE <<"User">>
              IN  <<"Authenticated", " ", "(">> \o username \o <<")">>
         ELSE <<"Authenticated">>
    ELSE <<"Not Authenticated">>

\* The JSON body of /api/status (the timestamp is left out)
StatusPayload(store, buffer, sessionId) ==
    LET userSession == Get(store, sessionId)
    IN  [ server    |-> <<"Server Online">>,
          user      |-> UserStatus(userSession),
          userInfo  |-> IF userSession.isAuthenticated
                        THEN userSession.userInfo ELSE NoUserInfo,
          sessions  |-> Cardinality(DOMAIN store),
          logs      |-> Len(buffer),
          sessionId |-> sessionId ]

\* Faulty variant of Status: an entry is created for an unknown id
StatusCreatesEntry(req) ==
    /\ CanReceive
    /\ LET sessionId == getSessionId(req)
           L1 == addLog(LogState,
                        <<"Status checked for session: ">>
                            \o Substring(sessionId, 0, 8) \o <<"...">>,
                        "info")
       IN  /\ resp' = Ok(NewRid, "/api/status", req, sessionId,
                         StatusPayload(sessions, logs, sessionId))
           /\ sessions' = IF Has(sessions, sessionId) THEN sessions
                          ELSE Put(sessions, sessionId, Absent)
           /\ logs' = L1.logs
           /\ sent' = L1.sent
           /\ broken' = L1.broken
    /\ nextRid' = NewRid
    /\ UNCHANGED <<logClients, inflight, outbound, process>>

\* Faulty variant of Status: a caller without a session is refused
StatusRejectsAnonymous(req) ==
    /\ CanReceive
    /\ LET sessionId == getSessionId(req)
           L1 == addLog(LogState,
                        <<"Status checked for session: ">>
                            \o Substring(sessionId, 0, 8) \o <<"...">>,
                        "info")
       IN  /\ resp' = [Ok(NewRid, "/api/status", req, sessionId,
                          StatusPayload(sessions, logs, sessionId))
                          EXCEPT !.status =
                              IF Get(sessions, sessionId).isAuthenticated
                              THEN 200 ELSE 401]
           /\ logs' = L1.logs
           /\ sent' = L1.sent
           /\ broken' = L1.broken
    /\ nextRid' = NewRid
    /\ UNCHANGED <<sessions, logClients, inflight, outbound, process>>

\* GET /api/status
Status(req) ==
    /\ CanReceive
    /\ LET sessionId == getSessionId(req)
           L1 == addLog(LogState,
                        <<"Status checked for session: ">>
                            \o Substring(sessionId, 0, 8) \o <<"...">>,
                        "info")
       IN  /\ resp' = Ok(NewRid, "/api/status", req, sessionId,
                         StatusPayload(sessions, logs, sessionId))
           /\ logs' = L1.logs
           /\ sent' = L1.sent
           /\ broken' = L1.broken
    /\ nextRid' = NewRid
    /\ UNCHANGED <<sessions, logClients, inflight, outbound, process>>

\* The authorization URL of /login
AuthUrl ==
    keycloakConfig.endpoint \o <<"/protocol/openid-connect/auth", "?">>
        \o <<"client_id", "=">> \o keycloakConfig.clientId \o <<"&">>
        \o <<"redirect_uri", "=">> \o encodeURIComponent(keycloakConfig.redirectUri)
        \o <<"&">> \o <<"response_type", "=", "code">> \o <<"&">>
        \o <<"scope", "=">> \o encodeURIComponent(keycloakConfig.scope)

\* Faulty variant of Login: a caller with a session is sent to the dashboard
LoginSkipsWhenAuthenticated(req) ==
    /\ CanReceive
    /\ LET L1 == addLog(LogState,
                        <<"Redirecting to Keycloak for authentication...">>, "info")
       IN  /\ logs' = L1.logs
           /\ sent' = L1.sent
           /\ broken' = L1.broken
    /\ resp' = Redirect(NewRid, "/login", req, Undefined,
                        IF Get(sessions, getSessionId(req)).isAuthenticated
                        THEN <<"/">> ELSE AuthUrl,
                        Undefined)
    /\ nextRid' = NewRid
    /\ UNCHANGED <<sessions, logClients, inflight, outbound, process>>

\* GET /login : the handler does not read the request
Login(req) ==
    /\ CanReceive
    /\ LET L1 == addLog(LogState,
                        <<"Redirecting to Keycloak for authentication...">>, "info")
       IN  /\ logs' = L1.logs
           /\ sent' = L1.sent
           /\ broken' = L1.broken
    /\ resp' = Redirect(NewRid, "/login", req, Undefined, AuthUrl, Undefined)
    /\ nextRid' = NewRid
    /\ UNCHANGED <<sessions, logClients, inflight, outbound, process>>

\* The Set-Cookie header of a successful /callback
SessionCookie(sessionId) ==
    <<"sessionId", "=">> \o sessionId
        \o <<";", " ", "HttpOnly", ";", " ", "Path=/", ";", " ", "Max-Age=86400">>

\* The Set-Cookie header of /logout
ClearedCookie ==
    <<"sessionId", "=", ";", " ", "HttpOnly", ";", " ", "Path=/", ";", " ",
      "Max-Age=0">>

\* The frame of a /callback request suspended at an await; storeAtArrival
\* remembers the store the request found, and loggedOut that a /logout for
\* its session id was answered since it arrived, for the claims that refer
\* to them
Frame(req, sessionId, authCode, pc, accessToken, seen) ==
    [ req |-> req, sessionId |-> sessionId, authCode |-> authCode, pc |-> pc,
      accessToken |-> accessToken, storeAtArrival |-> seen,
      loggedOut |-> FALSE ]

\* The frames once a /logout for a session id has been answered
LogoutSeen(frames, sessionId) ==
    [rid \in DOMAIN frames |->
        IF frames[rid].sessionId = sessionId
        THEN [frames[rid] EXCEPT !.loggedOut = TRUE]
        ELSE frames[rid]]

Suspend(frames, rid, frame) ==
    [k \in DOMAIN frames \cup {rid} |-> IF k = rid THEN frame ELSE frames[k]]

Resume(frames, rid) == [k \in DOMAIN frames \ {rid} |-> frames[k]]

\* Faulty variant of CallbackNoCode: an empty session is stored first
CallbackNoCodeWritesEntry(req, sessionId) ==
    LET L1 == addLog(LogState, <<"Authorization code not found in callback">>,
                     "error")
    IN  /\ logs' = L1.logs
        /\ sent' = L1.sent
        /\ broken' = L1.broken
        /\ sessions' = Put(sessions, sessionId, Absent)
        /\ resp' = Redirect(NewRid, "/callback", req, sessionId,
                            <<"/", "?", "error", "=", "no_auth_code">>, Undefined)
        /\ UNCHANGED <<inflight, outbound, process>>

\* /callback without a code: answered at once
CallbackNoCode(req, sessionId) ==
    LET L1 == addLog(LogState, <<"Authorization code not found in callback">>,
                     "error")
    IN  /\ logs' = L1.logs
        /\ sent' = L1.sent
        /\ broken' = L1.broken
        /\ resp' = Redirect(NewRid, "/callback", req, sessionId,
                            <<"/", "?", "error", "=", "no_auth_code">>, Undefined)
        /\ UNCHANGED <<sessions, inflight, outbound, process>>

\* Faulty variant of CallbackExchange: a pending entry is stored on arrival
CallbackExchangeReservesEntry(req, sessionId) ==
    LET authCode == req.code
        L1 == addLog(LogState,
                     <<"Authorization code received: ">>
                         \o Substring(authCode, 0, 20) \o <<"...">>,
                     "success")
        L2 == addLog(L1, <<"Exchanging code for access tokens...">>, "info")
    IN  /\ logs' = L2.logs
        /\ sent' = L2.sent
        /\ broken' = L2.broken
        /\ outbound' = Append(outbound,
                              [TokenCall(NewRid, authCode) EXCEPT
                                  !.storeAtArrival = sessions])
        /\ inflight' = Suspend(inflight, NewRid,
                               Frame(req, sessionId, authCode, "token",
                                     Undefined, sessions))
        /\ sessions' = IF Has(sessions, sessionId) THEN sessions
                       ELSE Put(sessions, sessionId, [Absent EXCEPT !.obj = NewRid])
        /\ resp' = NoResponse
        /\ UNCHANGED process

\* /callback with a code, up to the first await: the token request is sent
CallbackExchange(req, sessionId) ==
    LET authCode == req.code
        L1 == addLog(LogState,
                     <<"Authorization code received: ">>
                         \o Substring(authCode, 0, 20) \o <<"...">>,
                     "success")
        L2 == addLog(L1, <<"Exchanging code for access tokens...">>, "info")
    IN  /\ logs' = L2.logs
        /\ sent' = L2.sent
        /\ broken' = L2.broken
        /\ outbound' = Append(outbound,
                              [TokenCall(NewRid, authCode) EXCEPT
                                  !.storeAtArrival = sessions])
        /\ inflight' = Suspend(inflight, NewRid,
                               Frame(req, sessionId, authCode, "token",
                                     Undefined, sessions))
        /\ resp' = NoResponse
        /\ UNCHANGED <<sessions, process>>

\* What becomes of the rejected promise of an async handler: the router
\* passes the rejection to the error middleware (Express 5), or nothing
\* handles it and Node ends the process (Express 4 on Node 15 or later)
RejectionOutcomes == {"forwarded", "fatal"}

\* The error middleware: one log entry and the 500 answer
ErrorMiddleware(req, sessionId, message) ==
    LET L1 == addLog(LogState, <<"Internal server error: ">> \o message, "error")
    IN  /\ logs' = L1.logs
        /\ sent' = L1.sent
        /\ broken' = L1.broken
        /\ resp' = ServerError(NewRid, req, sessionId, message)

\* /callback with a code that is not a string: authCode.substring throws
\* before the try block, so the promise of the handler is rejected
CallbackThrows(req, sessionId) ==
    \E outcome \in RejectionOutcomes :
        IF outcome = "forwarded"
        THEN /\ ErrorMiddleware(req, sessionId,
                                <<"authCode.substring is not a function">>)
             /\ UNCHANGED <<sessions, inflight, outbound, process>>
        ELSE /\ process' = "exited"
             /\ inflight' = Suspend(inflight, NewRid,
                                    Frame(req, sessionId, req.code, "rejected",
                                          Undefined, sessions))
             /\ resp' = NoResponse
             /\ UNCHANGED <<sessions, logs, sent, broken, outbound>>

\* Faulty variant of Callback: a /callback is refused unless a /login was
\* requested before it
CallbackRequiresLogin(req) ==
    /\ CanReceive
    /\ \E minted \in GenIds :
         LET resolved  == getSessionId(req)
             sessionId == IF resolved = <<"default">> THEN minted ELSE resolved
             pending   == \E i \in 1..Len(logs) :
                              logs[i].message
                                  = <<"Redirecting to Keycloak for authentication...">>
         IN  IF ~Truthy(req.code) \/ ~pending
             THEN CallbackNoCode(req, sessionId)
             ELSE IF ~IsString(req.code)
             THEN CallbackThrows(req, sessionId)
             ELSE CallbackExchange(req, sessionId)
    /\ nextRid' = NewRid
    /\ UNCHANGED logClients

\* Faulty variant of Callback: the fallback id is used as it is
CallbackKeepsDefault(req) ==
    /\ CanReceive
    /\ LET sessionId == getSessionId(req)
       IN  IF ~Truthy(req.code)
           THEN CallbackNoCode(req, sessionId)
           ELSE IF ~IsString(req.code)
           THEN CallbackThrows(req, sessionId)
           ELSE CallbackExchange(req, sessionId)
    /\ nextRid' = NewRid
    /\ UNCHANGED logClients

\* GET /callback up to its first await: the session id is resolved, and
\* minted when it is the fallback
Callback(req) ==
    /\ CanReceive
    /\ \E minted \in GenIds :
         LET resolved  == getSessionId(req)
             sessionId == IF resolved = <<"default">> THEN minted ELSE resolved
         IN  IF ~Truthy(req.code)
             THEN CallbackNoCode(req, sessionId)
             ELSE IF ~IsString(req.code)
             THEN CallbackThrows(req, sessionId)
             ELSE CallbackExchange(req, sessionId)
    /\ nextRid' = NewRid
    /\ UNCHANGED logClients

\* error.response?.data?.error_description || error.response?.data || error.message
ErrorMsg(reply) ==
    IF reply.hasResponse /\ Truthy(reply.error_description)
    THEN reply.error_description
    ELSE IF reply.hasResponse THEN <<"[object Object]">>
    ELSE reply.message

\* Faulty variant of NewSession: access and refresh token are swapped
NewSessionSwapsTokens(rid, reply) ==
    [ idToken |-> reply.id_token, accessToken |-> reply.refresh_token,
      refreshToken |-> reply.access_token, userInfo |-> NoUserInfo,
      isAuthenticated |-> TRUE, obj |-> rid ]

\* The session object built from a 2xx token answer; obj is the identity of
\* the object (the request that created it)
NewSession(rid, reply) ==
    [ idToken |-> reply.id_token, accessToken |-> reply.access_token,
      refreshToken |-> reply.refresh_token, userInfo |-> NoUserInfo,
      isAuthenticated |-> TRUE, obj |-> rid ]

\* Faulty variant of TokenSuccess: the store keeps the newest session only
TokenSuccessSingleSession(rid, reply) ==
    LET f  == inflight[rid]
        L1 == addLog(LogState, <<"Tokens received successfully!">>, "success")
    IN  /\ logs' = L1.logs
        /\ sent' = L1.sent
        /\ broken' = L1.broken
        /\ sessions' = Put(<<>>, f.sessionId, NewSession(rid, reply))
        /\ outbound' = Append(TokenAnswered(outbound, rid, reply),
                              UserinfoCall(rid, reply.access_token))
        /\ inflight' = [inflight EXCEPT ![rid].pc = "userinfo",
                                        ![rid].accessToken = reply.access_token]
        /\ resp' = NoResponse

\* Faulty variant of TokenSuccess: the userInfo of the entry being replaced
\* is carried over
TokenSuccessKeepsUserInfo(rid, reply) ==
    LET f  == inflight[rid]
        L1 == addLog(LogState, <<"Tokens received successfully!">>, "success")
    IN  /\ logs' = L1.logs
        /\ sent' = L1.sent
        /\ broken' = L1.broken
        /\ sessions' = Put(sessions, f.sessionId,
                           [NewSession(rid, reply) EXCEPT
                               !.userInfo = Get(sessions, f.sessionId).userInfo])
        /\ outbound' = Append(TokenAnswered(outbound, rid, reply),
                              UserinfoCall(rid, reply.access_token))
        /\ inflight' = [inflight EXCEPT ![rid].pc = "userinfo",
                                        ![rid].accessToken = reply.access_token]
        /\ resp' = NoResponse

\* Faulty variant of TokenSuccess: the session is not stored before the
\* userinfo request
TokenSuccessDefersStore(rid, reply) ==
    LET f  == inflight[rid]
        L1 == addLog(LogState, <<"Tokens received successfully!">>, "success")
    IN  /\ logs' = L1.logs
        /\ sent' = L1.sent
        /\ broken' = L1.broken
        /\ outbound' = Append(TokenAnswered(outbound, rid, reply),
                              UserinfoCall(rid, reply.access_token))
        /\ inflight' = [inflight EXCEPT ![rid].pc = "userinfo",
                                        ![rid].accessToken = reply.access_token]
        /\ resp' = NoResponse
        /\ UNCHANGED sessions

\* /callback resumed by a 2xx answer of the token endpoint: the session is
\* stored and the userinfo request is sent
TokenSuccess(rid, reply) ==
    LET f  == inflight[rid]
        L1 == addLog(LogState, <<"Tokens received successfully!">>, "success")
    IN  /\ logs' = L1.logs
        /\ sent' = L1.sent
        /\ broken' = L1.broken
        /\ sessions' = Put(sessions, f.sessionId, NewSession(rid, reply))
        /\ outbound' = Append(TokenAnswered(outbound, rid, reply),
                              UserinfoCall(rid, reply.access_token))
        /\ inflight' = [inflight EXCEPT ![rid].pc = "userinfo",
                                        ![rid].accessToken = reply.access_token]
        /\ resp' = NoResponse

\* Faulty variant of TokenFailure: an unauthenticated session is left behind
TokenFailureLeavesPartial(rid, reply) ==
    LET f  == inflight[rid]
        L1 == addLog(LogState,
                     <<"Error obtaining tokens: ">> \o Str(ErrorMsg(reply)), "error")
    IN  /\ logs' = L1.logs
        /\ sent' = L1.sent
        /\ broken' = L1.broken
        /\ sessions' = Put(sessions, f.sessionId, [Absent EXCEPT !.obj = rid])
        /\ outbound' = TokenAnswered(outbound, rid, reply)
        /\ resp' = Redirect(rid, "/callback", f.req, f.sessionId,
                            <<"/", "?", "error", "=", "auth_failed">>, Undefined)
        /\ inflight' = Resume(inflight, rid)

\* /callback resumed by a failed token request: the catch block answers
TokenFailure(rid, reply) ==
    LET f  == inflight[rid]
        L1 == addLog(LogState,
                     <<"Error obtaining tokens: ">> \o Str(ErrorMsg(reply)), "error")
    IN  /\ logs' = L1.logs
        /\ sent' = L1.sent
        /\ broken' = L1.broken
        /\ outbound' = TokenAnswered(outbound, rid, reply)
        /\ resp' = Redirect(rid, "/callback", f.req, f.sessionId,
                            <<"/", "?", "error", "=", "auth_failed">>, Undefined)
        /\ inflight' = Resume(inflight, rid)
        /\ UNCHANGED sessions

TokenReturns(rid) ==
    /\ Running
    /\ rid \in DOMAIN inflight
    /\ inflight[rid].pc = "token"
    /\ \E reply \in TokenReplies :
         IF reply.ok THEN TokenSuccess(rid, reply) ELSE TokenFailure(rid, reply)
    /\ UNCHANGED <<logClients, nextRid, process>>

\* Faulty variant of AttachUserInfo: the claims are attached to whatever
\* entry the store holds under the session id
AttachUserInfoToStored(store, sessionId, rid, data) ==
    IF Has(store, sessionId)
    THEN [store EXCEPT ![sessionId].userInfo = <<data>>]
    ELSE store

\* userSession.userInfo = data: the object this request created is changed;
\* the store shows it only while it still holds that object
AttachUserInfo(store, sessionId, rid, data) ==
    IF Has(store, sessionId) /\ store[sessionId].obj = rid
    THEN [store EXCEPT ![sessionId].userInfo = <<data>>]
    ELSE store

\* Faulty variant of UserinfoFailure: the failure is treated as fatal
UserinfoFailureFailsLogin(rid, reply) ==
    LET f  == inflight[rid]
        L1 == addLog(LogState, <<"Could not fetch user information">>, "warning")
    IN  /\ logs' = L1.logs
        /\ sent' = L1.sent
        /\ broken' = L1.broken
        /\ outbound' = UserinfoAnswered(outbound, rid, reply)
        /\ resp' = Redirect(rid, "/callback", f.req, f.sessionId,
                            <<"/", "?", "error", "=", "auth_failed">>, Undefined)
        /\ inflight' = Resume(inflight, rid)
        /\ UNCHANGED sessions

\* Faulty variant of UserinfoFailure: the userinfo request is sent once more
\* after its first failure
UserinfoFailureRetries(rid, reply) ==
    LET f  == inflight[rid]
        L1 == addLog(LogState, <<"Could not fetch user information">>, "warning")
        L2 == addLog(L1, <<"Authentication completed! Redirecting to main page...">>,
                     "success")
        tried == {i \in 1..Len(outbound) :
                     outbound[i].rid = rid /\ outbound[i].method = "GET"}
    IN  IF Cardinality(tried) < 2
        THEN /\ outbound' = Append(UserinfoAnswered(outbound, rid, reply),
                                   UserinfoCall(rid, f.accessToken))
             /\ resp' = NoResponse
             /\ UNCHANGED <<sessions, logs, sent, broken, inflight>>
        ELSE /\ logs' = L2.logs
             /\ sent' = L2.sent
             /\ broken' = L2.broken
             /\ outbound' = UserinfoAnswered(outbound, rid, reply)
             /\ resp' = Redirect(rid, "/callback", f.req, f.sessionId,
                                 <<"/", "?", "auth", "=", "success">>,
                                 SessionCookie(f.sessionId))
             /\ inflight' = Resume(inflight, rid)
             /\ UNCHANGED sessions

\* /callback resumed by a failed userinfo request (inner catch), then the
\* cookie and the success redirect
UserinfoFailure(rid, reply) ==
    LET f  == inflight[rid]
        L1 == addLog(LogState, <<"Could not fetch user information">>, "warning")
        L2 == addLog(L1, <<"Authentication completed! Redirecting to main page...">>,
                     "success")
    IN  /\ logs' = L2.logs
        /\ sent' = L2.sent
        /\ broken' = L2.broken
        /\ outbound' = UserinfoAnswered(outbound, rid, reply)
        /\ resp' = Redirect(rid, "/callback", f.req, f.sessionId,
                            <<"/", "?", "auth", "=", "success">>,
                            SessionCookie(f.sessionId))
        /\ inflight' = Resume(inflight, rid)
        /\ UNCHANGED sessions

\* /callback resumed by the claims of the userinfo endpoint, then the cookie
\* and the success redirect
UserinfoSuccess(rid, reply) ==
    LET f  == inflight[rid]
        L1 == addLog(LogState,
                     <<"User authenticated: ">>
                         \o Str(IF Truthy(reply.data.preferred_username)
                                THEN reply.data.preferred_username
                                ELSE reply.data.email),
                     "success")
        L2 == addLog(L1, <<"Authentication completed! Redirecting to main page...">>,
                     "success")
    IN  /\ logs' = L2.logs
        /\ sent' = L2.sent
        /\ broken' = L2.broken
        /\ sessions' = AttachUserInfo(sessions, f.sessionId, rid, reply.data)
        /\ outbound' = UserinfoAnswered(outbound, rid, reply)
        /\ resp' = Redirect(rid, "/callback", f.req, f.sessionId,
                            <<"/", "?", "auth", "=", "success">>,
                            SessionCookie(f.sessionId))
        /\ inflight' = Resume(inflight, rid)

UserinfoReturns(rid) ==
    /\ Running
    /\ rid \in DOMAIN inflight
    /\ inflight[rid].pc = "userinfo"
    /\ \E reply \in UserinfoReplies(inflight[rid].accessToken) :
         IF reply.ok THEN UserinfoSuccess(rid, reply) ELSE UserinfoFailure(rid, reply)
    /\ UNCHANGED <<logClients, nextRid, process>>

\* Faulty variant of LogoutUrl: the hint is appended unconditionally
LogoutUrlAlwaysHints(userSession) ==
    keycloakConfig.endpoint \o <<"/protocol/openid-connect/logout", "?">>
        \o <<"client_id", "=">> \o keycloakConfig.clientId \o <<"&">>
        \o <<"post_logout_redirect_uri", "=">>
        \o encodeURIComponent(keycloakConfig.logoutRedirectUri)
        \o <<"&", "id_token_hint", "=">> \o Str(userSession.idToken)

\* The logout URL of /logout for a session
LogoutUrl(userSession) ==
    keycloakConfig.endpoint \o <<"/protocol/openid-connect/logout", "?">>
        \o <<"client_id", "=">> \o keycloakConfig.clientId \o <<"&">>
        \o <<"post_logout_redirect_uri", "=">>
        \o encodeURIComponent(keycloakConfig.logoutRedirectUri)
        \o (IF Truthy(userSession.idToken)
            THEN <<"&", "id_token_hint", "=">> \o userSession.idToken
            ELSE <<>>)

\* Faulty variant of LogoutNoSession: the cookie is cleared all the same
LogoutNoSessionClearsCookie(req, sessionId) ==
    LET L1 == addLog(LogState, <<"Logout attempt without active session">>,
                     "warning")
    IN  /\ logs' = L1.logs
        /\ sent' = L1.sent
        /\ broken' = L1.broken
        /\ resp' = Redirect(NewRid, "/logout", req, sessionId,
                            <<"/logout-success">>, ClearedCookie)
        /\ UNCHANGED sessions

\* /logout without an authenticated session
LogoutNoSession(req, sessionId) ==
    LET L1 == addLog(LogState, <<"Logout attempt without active session">>,
                     "warning")
    IN  /\ logs' = L1.logs
        /\ sent' = L1.sent
        /\ broken' = L1.broken
        /\ resp' = Redirect(NewRid, "/logout", req, sessionId,
                            <<"/logout-success">>, Undefined)
        /\ UNCHANGED sessions

\* Faulty variant of LogoutSession: the entry is not deleted
LogoutSessionKeepsEntry(req, sessionId, userSession) ==
    LET L1 == addLog(LogState, <<"Redirecting to Keycloak for logout...">>, "info")
    IN  /\ logs' = L1.logs
        /\ sent' = L1.sent
        /\ broken' = L1.broken
        /\ resp' = Redirect(NewRid, "/logout", req, sessionId,
                            LogoutUrl(userSession), ClearedCookie)
        /\ UNCHANGED sessions

\* Faulty variant of LogoutSession: the logout URL is written to the log
LogoutSessionLogsUrl(req, sessionId, userSession) ==
    LET L1 == addLog(LogState,
                     <<"Redirecting to Keycloak for logout...">>
                         \o LogoutUrl(userSession),
                     "info")
    IN  /\ logs' = L1.logs
        /\ sent' = L1.sent
        /\ broken' = L1.broken
        /\ sessions' = Delete(sessions, sessionId)
        /\ resp' = Redirect(NewRid, "/logout", req, sessionId,
                            LogoutUrl(userSession), ClearedCookie)

\* Faulty variant of LogoutSession: the entry is emptied, not deleted
LogoutSessionLeavesTombstone(req, sessionId, userSession) ==
    LET L1 == addLog(LogState, <<"Redirecting to Keycloak for logout...">>, "info")
    IN  /\ logs' = L1.logs
        /\ sent' = L1.sent
        /\ broken' = L1.broken
        /\ sessions' = Put(sessions, sessionId, Absent)
        /\ resp' = Redirect(NewRid, "/logout", req, sessionId,
                            LogoutUrl(userSession), ClearedCookie)

\* /logout of an authenticated session
LogoutSession(req, sessionId, userSession) ==
    LET L1 == addLog(LogState, <<"Redirecting to Keycloak for logout...">>, "info")
    IN  /\ logs' = L1.logs
        /\ sent' = L1.sent
        /\ broken' = L1.broken
        /\ sessions' = Delete(sessions, sessionId)
        /\ resp' = Redirect(NewRid, "/logout", req, sessionId,
                            LogoutUrl(userSession), ClearedCookie)

\* GET /logout
Logout(req) ==
    /\ CanReceive
    /\ LET sessionId   == getSessionId(req)
           userSession == Get(sessions, sessionId)
       IN  IF ~Has(sessions, sessionId) \/ ~userSession.isAuthenticated
           THEN LogoutNoSession(req, sessionId)
           ELSE LogoutSession(req, sessionId, userSession)
    /\ inflight' = LogoutSeen(inflight, getSessionId(req))
    /\ nextRid' = NewRid
    /\ UNCHANGED <<logClients, outbound, process>>

\* Faulty variant of LogoutSuccess: the confirmation page empties the store
LogoutSuccessClearsStore ==
    /\ CanReceive
    /\ LET L1 == addLog(LogState, <<"Logout completed successfully!">>, "success")
       IN  /\ logs' = L1.logs
           /\ sent' = L1.sent
           /\ broken' = L1.broken
    /\ sessions' = <<>>
    /\ resp' = Ok(NewRid, "/logout-success", NoRequest, Undefined, NoBody)
    /\ nextRid' = NewRid
    /\ UNCHANGED <<logClients, inflight, outbound, process>>

\* GET /logout-success : one log entry, then the confirmation page
LogoutSuccess ==
    /\ CanReceive
    /\ LET L1 == addLog(LogState, <<"Logout completed successfully!">>, "success")
       IN  /\ logs' = L1.logs
           /\ sent' = L1.sent
           /\ broken' = L1.broken
    /\ resp' = Ok(NewRid, "/logout-success", NoRequest, Undefined, NoBody)
    /\ nextRid' = NewRid
    /\ UNCHANGED <<sessions, logClients, inflight, outbound, process>>

\* Faulty variant of LogsConnect: the "connected" entry is logged before the
\* buffer is replayed
LogsConnectReplaysLast ==
    /\ CanReceive
    /\ LET joined == Append(logClients, NewRid)
           opened == [c \in DOMAIN sent \cup {NewRid} |->
                         IF c = NewRid THEN <<>> ELSE sent[c]]
           L1 == addLog([logs |-> logs, sent |-> opened, logClients |-> joined,
                         broken |-> broken],
                        <<"Log client connected">>, "success")
       IN  /\ logClients' = joined
           /\ logs' = L1.logs
           /\ sent' = [L1.sent EXCEPT ![NewRid] = @ \o L1.logs]
           /\ broken' = L1.broken
    /\ resp' = Ok(NewRid, "/api/logs", NoRequest, Undefined, NoBody)
    /\ nextRid' = NewRid
    /\ UNCHANGED <<sessions, inflight, outbound, process>>

\* GET /api/logs : the connection joins logClients, the buffer is replayed to
\* it, and the "connected" entry is logged (and broadcast, to it as well);
\* the response stays open
LogsConnect ==
    /\ CanReceive
    /\ LET joined   == Append(logClients, NewRid)
           replayed == [c \in DOMAIN sent \cup {NewRid} |->
                           IF c = NewRid THEN logs ELSE sent[c]]
           L1 == addLog([logs |-> logs, sent |-> replayed, logClients |-> joined,
                         broken |-> broken],
                        <<"Log client connected">>, "success")
       IN  /\ logClients' = joined
           /\ logs' = L1.logs
           /\ sent' = L1.sent
           /\ broken' = L1.broken
    /\ resp' = Ok(NewRid, "/api/logs", NoRequest, Undefined, NoBody)
    /\ nextRid' = NewRid
    /\ UNCHANGED <<sessions, inflight, outbound, process>>

\* Faulty variant of LogsClose: the "disconnected" entry is logged before the
\* connection leaves logClients
LogsCloseLogsFirst(client) ==
    /\ Running
    /\ client \in Range(logClients)
    /\ LET left == SelectSeq(logClients, LAMBDA c : c # client)
           L1 == addLog(LogState, <<"Log client disconnected">>, "info")
       IN  /\ logClients' = left
           /\ logs' = L1.logs
           /\ sent' = L1.sent
           /\ broken' = L1.broken
    /\ resp' = NoResponse
    /\ UNCHANGED <<sessions, inflight, outbound, nextRid, process>>

\* req.on('close') of an /api/logs connection: it leaves logClients, then the
\* "disconnected" entry is logged
LogsClose(client) ==
    /\ Running
    /\ client \in Range(logClients)
    /\ LET left == SelectSeq(logClients, LAMBDA c : c # client)
           L1 == addLog([logs |-> logs, sent |-> sent, logClients |-> left,
                         broken |-> broken],
                        <<"Log client disconnected">>, "info")
       IN  /\ logClients' = left
           /\ logs' = L1.logs
           /\ sent' = L1.sent
           /\ broken' = L1.broken
    /\ resp' = NoResponse
    /\ UNCHANGED <<sessions, inflight, outbound, nextRid, process>>

----------------------------------------------------------------------------
(* The server *)

\* PORT, when the environment does not set it
PORT == "3000"

\* The log entries of app.listen's callback
StartupLogs ==
    LET E(m, t) == [message |-> m, type |-> t]
    IN  << E(<<"Test server started at http://localhost:", PORT>>, "success"),
           E(<<"Access control panel: http://localhost:", PORT>>, "info"),
           E(<<"Login endpoint: http://localhost:", PORT, "/login">>, "info"),
           E(<<"Logout endpoint: http://localhost:", PORT, "/logout">>, "info"),
           E(<<"Status endpoint: http://localhost:", PORT, "/api/status">>, "info"),
           E(<<"Real-time logs: http://localhost:", PORT, "/api/logs">>, "info") >>

\* The server once it listens: empty store, no request yet
Init ==
    /\ sessions = <<>>
    /\ logs = StartupLogs
    /\ logClients = <<>>
    /\ sent = <<>>
    /\ inflight = <<>>
    /\ outbound = <<>>
    /\ resp = NoResponse
    /\ nextRid = 0
    /\ process = "running"
    /\ broken = <<>>

Next ==
    \/ Root
    \/ \E req \in PlainRequests : Login(req)
    \/ LogoutSuccess
    \/ \E req \in PlainRequests : Status(req)
    \/ \E req \in PlainRequests : Logout(req)
    \/ \E req \in Requests : Callback(req)
    \/ \E rid \in DOMAIN inflight : TokenReturns(rid)
    \/ \E rid \in DOMAIN inflight : UserinfoReturns(rid)
    \/ LogsConnect
    \/ \E client \in Range(logClients) : LogsClose(client)

Spec == Init /\ [][Next]_vars

\* Every outbound call eventually returns or fails: the continuation of an
\* await runs once its promise has settled
Fairness ==
    \A rid \in 1..MaxRequests :
        WF_vars(TokenReturns(rid)) /\ WF_vars(UserinfoReturns(rid))

SpecFair == Spec /\ Fairness

----------------------------------------------------------------------------
(* Session id resolution on arbitrary headers: the request is drawn at the  *)
(* start, and /api/status, which reports the resolved id, is applied to it. *)

ValChars == {"a", "="}

\* All strings of at most n fragments over an alphabet
Strings(alphabet, n) == UNION {[1..k -> alphabet] : k \in 0..n}

CookiePairs ==
    { <<name, "=">> \o value :
          name \in {"sessionId", "other"}, value \in Strings(ValChars, MaxValLen) }

\* cookie-pair *( ";" SP cookie-pair )
RECURSIVE JoinCookies(_)
JoinCookies(pairs) ==
    IF Len(pairs) = 1 THEN pairs[1]
    ELSE pairs[1] \o <<";", " ">> \o JoinCookies(Tail(pairs))

CookieHeaders ==
    {Undefined, <<>>}
        \cup { JoinCookies(pairs) :
                   pairs \in UNION {[1..k -> CookiePairs] : k \in 1..MaxCookies} }

AuthorizationHeaders ==
    {Undefined, <<>>, <<"Bearer", " ", "tok">>, <<"tok", ";", "x">>}

ResolveRequests ==
    { [cookie |-> c, authorization |-> a, code |-> Undefined] :
          c \in CookieHeaders, a \in AuthorizationHeaders }

InitResolve ==
    /\ sessions = <<>>
    /\ logs = StartupLogs
    /\ logClients = <<>>
    /\ sent = <<>>
    /\ inflight = <<>>
    /\ outbound = <<>>
    /\ \E req \in ResolveRequests : resp = [NoResponse EXCEPT !.req = req]
    /\ nextRid = 0
    /\ process = "running"
    /\ broken = <<>>

ResolveStatus ==
    /\ resp.route = "none"
    /\ Status(resp.req)

NextResolve == ResolveStatus

SpecResolve == InitResolve /\ [][NextResolve]_vars

----------------------------------------------------------------------------
(* /callback on arbitrary session ids: the request is drawn at the start,   *)
(* with a code, and /callback is applied to it and runs to its answer.      *)

CallbackRequests ==
    { [cookie |-> c, authorization |-> a, code |-> <<"abc">>] :
          c \in {Undefined} \cup {CookieOf(v) : v \in Strings(ValChars, MaxValLen)},
          a \in AuthorizationHeaders }

InitCallback ==
    /\ sessions = <<>>
    /\ logs = StartupLogs
    /\ logClients = <<>>
    /\ sent = <<>>
    /\ inflight = <<>>
    /\ outbound = <<>>
    /\ \E req \in CallbackRequests : resp = [NoResponse EXCEPT !.req = req]
    /\ nextRid = 0
    /\ process = "running"
    /\ broken = <<>>

ResolveCallback ==
    /\ nextRid = 0
    /\ Callback(resp.req)

NextCallback ==
    \/ ResolveCallback
    \/ \E rid \in DOMAIN inflight : TokenReturns(rid)
    \/ \E rid \in DOMAIN inflight : UserinfoReturns(rid)

SpecCallback == InitCallback /\ [][NextCallback]_vars

----------------------------------------------------------------------------
(* Vocabulary of the properties *)

\* A request was received and answered by this step, on the given route
AnsweredAtOnce(route) == nextRid' = nextRid + 1 /\ resp'.route = route

\* isAuthenticated of sessions.get(id), absent counting as not authenticated
AuthenticatedAt(store, id) == Has(store, id) /\ store[id].isAuthenticated

\* Position of the first occurrence of a fragment, 0 when there is none
FirstIndex(s, c) ==
    IF \E i \in 1..Len(s) : s[i] = c
    THEN CHOOSE i \in 1..Len(s) : s[i] = c /\ \A j \in 1..(i - 1) : s[j] # c
    ELSE 0

\* A cookie pair as RFC 6265 reads it: the name is what precedes the first
\* "=", the value is everything after it
PairName(pair) == SubSeq(pair, 1, FirstIndex(pair, "=") - 1)
PairValue(pair) == SubSeq(pair, FirstIndex(pair, "=") + 1, Len(pair))

\* The pairs of a Cookie header (or of a Set-Cookie header: its first pair is
\* the cookie, the others are attributes)
Pairs(header) ==
    IF Truthy(header)
    THEN LET parts == Split(header, ";")
         IN  [i \in 1..Len(parts) |-> Trim(parts[i])]
    ELSE <<>>

NamedPairs(header, name) ==
    {i \in 1..Len(Pairs(header)) :
        FirstIndex(Pairs(header)[i], "=") > 0 /\ PairName(Pairs(header)[i]) = <<name>>}

HasCookie(header, name) == NamedPairs(header, name) # {}

\* The value of the first cookie of that name
CookieValue(header, name) ==
    LET first == CHOOSE i \in NamedPairs(header, name) :
                     \A j \in NamedPairs(header, name) : i <= j
    IN  PairValue(Pairs(header)[first])

\* The part of a URL before "?", and the value of a query parameter
\* (Undefined when the URL does not carry the parameter)
UrlBase(url) == Split(url, "?")[1]

QueryPairs(url) ==
    IF FirstIndex(url, "?") = 0 THEN <<>>
    ELSE Split(SubSeq(url, FirstIndex(url, "?") + 1, Len(url)), "&")

QueryParam(url, name) ==
    LET hits == {i \in 1..Len(QueryPairs(url)) :
                    /\ FirstIndex(QueryPairs(url)[i], "=") > 0
                    /\ PairName(QueryPairs(url)[i]) = <<name>>}
    IN  IF hits = {} THEN Undefined
        ELSE PairValue(QueryPairs(url)[CHOOSE i \in hits : \A j \in hits : i <= j])

\* decodeURIComponent, fragment by fragment
DecodeFragment(c) ==
    CASE c = "%3A" -> ":"
      [] c = "%2F" -> "/"
      [] c = "%20" -> " "
      [] c = "%3D" -> "="
      [] c = "%3B" -> ";"
      [] c = "%26" -> "&"
      [] c = "%3F" -> "?"
      [] OTHER     -> c

decodeURIComponent(s) == [i \in 1..Len(s) |-> DecodeFragment(s[i])]

\* The calls a request made to the provider
CallsOf(rid, method) ==
    {i \in 1..Len(outbound) : outbound[i].rid = rid /\ outbound[i].method = method}

NoAuthCode == <<"/", "?", "error", "=", "no_auth_code">>
AuthFailed == <<"/", "?", "error", "=", "auth_failed">>
AuthSuccess == <<"/", "?", "auth", "=", "success">>

----------------------------------------------------------------------------
(* Session id resolution *)

\* C1: the resolved session id is the value of the sessionId cookie when the
\* request has one, else the value of the Authorization header when it has
\* one, else "default".
C1_Precedence ==
    resp.route = "/api/status" =>
        resp.body.sessionId =
            IF HasCookie(resp.req.cookie, "sessionId")
            THEN CookieValue(resp.req.cookie, "sessionId")
            ELSE IF Truthy(resp.req.authorization) THEN resp.req.authorization
            ELSE <<"default">>

----------------------------------------------------------------------------
(* /callback *)

\* C2: a /callback without code is answered at once with the redirect to
\* /?error=no_auth_code; the step changes no session entry and makes no
\* outbound call, and no request without code is ever left waiting.
C2_NoCodeCallback ==
    [][ /\ (AnsweredAtOnce("/callback") /\ ~Truthy(resp'.req.code)) =>
               /\ resp'.status = 302
               /\ resp'.location = NoAuthCode
               /\ sessions' = sessions
               /\ Cardinality(DOMAIN sessions') = Cardinality(DOMAIN sessions)
               /\ outbound' = outbound
               /\ inflight' = inflight
        /\ AnsweredAtOnce("/callback") => ~Truthy(resp'.req.code)
        /\ \A rid \in DOMAIN inflight' : Truthy(inflight'[rid].authCode) ]_vars

\* C2 witness: a /callback without code, sent with the cookie of a session
\* that is in the store, has been answered.
C2_Witness ==
    /\ resp.route = "/callback"
    /\ resp.location = NoAuthCode
    /\ resp.req.cookie # Undefined
    /\ Has(sessions, resp.sessionId)

\* The step that answers a suspended /callback with /?error=auth_failed
AuthFailedStep ==
    /\ resp'.rid \in DOMAIN inflight
    /\ resp'.rid \notin DOMAIN inflight'
    /\ resp'.location = AuthFailed

\* C3 as stated: when /callback answers /?error=auth_failed, the store is the
\* one the request found when it arrived.
C3_StoreAsAtArrival ==
    [][ AuthFailedStep => sessions' = inflight[resp'.rid].storeAtArrival ]_vars

\* C3 amended: when /callback answers /?error=auth_failed, the answering step
\* leaves the store unchanged and the store holds no session object created by
\* that request.
C3_FailedExchangeWritesNothing ==
    [][ AuthFailedStep =>
            /\ sessions' = sessions
            /\ \A id \in DOMAIN sessions' : sessions'[id].obj # resp'.rid ]_vars

\* C3 witness: a transport failure of the token request has been answered
\* with /?error=auth_failed while the store holds another request's session.
C3_Witness ==
    /\ resp.location = AuthFailed
    /\ \E i \in CallsOf(resp.rid, "POST") :
           outbound[i].answered /\ ~outbound[i].tokenReply.hasResponse
    /\ sessions # <<>>

\* C4: when /callback answers /?auth=success, the store holds an
\* authenticated entry under the resolved session id and the response sets
\* the sessionId cookie to that id.
C4_SuccessMeansStored ==
    resp.location = AuthSuccess =>
        /\ AuthenticatedAt(sessions, resp.sessionId)
        /\ HasCookie(resp.setCookie, "sessionId")
        /\ CookieValue(resp.setCookie, "sessionId") = resp.sessionId

\* C5: every stored session holds the id_token, access_token and
\* refresh_token of the 2xx token answer its request received, unchanged,
\* and, once the userinfo request of that request has succeeded, the claims
\* it returned.
C5_StoredVerbatim ==
    \A id \in DOMAIN sessions :
        LET s == sessions[id]
        IN  /\ \E i \in CallsOf(s.obj, "POST") :
                   /\ outbound[i].answered
                   /\ outbound[i].tokenReply.ok
                   /\ s.idToken = outbound[i].tokenReply.id_token
                   /\ s.accessToken = outbound[i].tokenReply.access_token
                   /\ s.refreshToken = outbound[i].tokenReply.refresh_token
            /\ \A j \in CallsOf(s.obj, "GET") :
                   (outbound[j].answered /\ outbound[j].userinfoReply.ok) =>
                       s.userInfo = <<outbound[j].userinfoReply.data>>

\* C5 witness: the callback that received AT/IT/RT and the claims of joao has
\* answered, and its session is in the store under its session id.
C5_Witness ==
    /\ resp.location = AuthSuccess
    /\ Has(sessions, resp.sessionId)
    /\ sessions[resp.sessionId].obj = resp.rid
    /\ sessions[resp.sessionId].idToken = <<"IT">>
    /\ sessions[resp.sessionId].accessToken = <<"AT">>
    /\ sessions[resp.sessionId].refreshToken = <<"RT">>
    /\ sessions[resp.sessionId].userInfo # NoUserInfo
    /\ sessions[resp.sessionId].userInfo[1].preferred_username = <<"joao">>

\* C6: a failed userinfo request ends its /callback with the success
\* redirect and the sessionId cookie, never with /?error=auth_failed, and the
\* session that request stored stays authenticated, with its tokens and
\* without userInfo.
C6_UserinfoFailureIsSuccess ==
    \A j \in 1..Len(outbound) :
        (outbound[j].method = "GET" /\ outbound[j].answered
            /\ ~outbound[j].userinfoReply.ok) =>
            LET rid == outbound[j].rid
            IN  /\ rid \notin DOMAIN inflight
                /\ resp.rid = rid =>
                       /\ resp.status = 302
                       /\ resp.location = AuthSuccess
                       /\ resp.setCookie = SessionCookie(resp.sessionId)
                /\ \A id \in DOMAIN sessions :
                       sessions[id].obj = rid =>
                           /\ sessions[id].isAuthenticated
                           /\ sessions[id].userInfo = NoUserInfo
                           /\ \E i \in CallsOf(rid, "POST") :
                                  sessions[id].accessToken =
                                      outbound[i].tokenReply.access_token

\* C6 witness: a callback whose userinfo request failed has answered, and its
\* session is in the store.
C6_Witness ==
    /\ resp.location = AuthSuccess
    /\ \E j \in CallsOf(resp.rid, "GET") :
           outbound[j].answered /\ ~outbound[j].userinfoReply.ok
    /\ Has(sessions, resp.sessionId)
    /\ sessions[resp.sessionId].obj = resp.rid

----------------------------------------------------------------------------
(* /logout and /api/status *)

\* C7: /logout on an authenticated session removes the entry in the step
\* that sends the redirect, with no outbound call; after it the session id
\* has no entry, /api/status reports it not authenticated, and the response
\* clears the sessionId cookie (empty value, Max-Age=0).
C7_LogoutDeletes ==
    [][ (AnsweredAtOnce("/logout") /\ AuthenticatedAt(sessions, resp'.sessionId)) =>
            /\ ~Has(sessions', resp'.sessionId)
            /\ StatusPayload(sessions', logs', resp'.sessionId).user
                   = <<"Not Authenticated">>
            /\ outbound' = outbound
            /\ resp'.status = 302
            /\ HasCookie(resp'.setCookie, "sessionId")
            /\ CookieValue(resp'.setCookie, "sessionId") = <<>>
            /\ <<"Max-Age=0">> \in Range(Pairs(resp'.setCookie)) ]_vars

\* C7 witness: a /logout has cleared the cookie and the session id has no
\* entry.
C7_Witness ==
    /\ resp.route = "/logout"
    /\ resp.setCookie = ClearedCookie
    /\ ~Has(sessions, resp.sessionId)

\* C8: /logout for a session id without an authenticated entry redirects to
\* /logout-success, makes no outbound call, leaves the store unchanged and
\* sets no cookie.
C8_LogoutWithoutSession ==
    [][ (AnsweredAtOnce("/logout") /\ ~AuthenticatedAt(sessions, resp'.sessionId)) =>
            /\ resp'.status = 302
            /\ resp'.location = <<"/logout-success">>
            /\ outbound' = outbound
            /\ sessions' = sessions
            /\ resp'.setCookie = Undefined ]_vars

\* C8 witness: a /logout right after a /logout has been answered with the
\* confirmation page.
C8_Witness ==
    /\ resp.route = "/logout"
    /\ resp.location = <<"/logout-success">>
    /\ nextRid = 2
    /\ logs[Len(logs) - 1].message \in
           { <<"Logout attempt without active session">>,
             <<"Redirecting to Keycloak for logout...">> }

\* C9: the redirect of /logout on an authenticated session is the provider's
\* logout URL with client_id and post_logout_redirect_uri, and it carries
\* id_token_hint exactly when the stored session has an id token, with that
\* token as its value.
C9_LogoutUrl ==
    [][ (AnsweredAtOnce("/logout") /\ AuthenticatedAt(sessions, resp'.sessionId)) =>
            LET userSession == sessions[resp'.sessionId]
                url == resp'.location
            IN  /\ UrlBase(url) = keycloakConfig.endpoint
                                      \o <<"/protocol/openid-connect/logout">>
                /\ QueryParam(url, "client_id") = keycloakConfig.clientId
                /\ QueryParam(url, "post_logout_redirect_uri") # Undefined
                /\ decodeURIComponent(QueryParam(url, "post_logout_redirect_uri"))
                       = keycloakConfig.logoutRedirectUri
                /\ (QueryParam(url, "id_token_hint") # Undefined)
                       <=> (userSession.idToken # Undefined)
                /\ QueryParam(url, "id_token_hint") = userSession.idToken ]_vars

\* C9 witness: a /logout has redirected with id_token_hint=IT.
C9_Witness ==
    /\ resp.route = "/logout"
    /\ QueryParam(resp.location, "id_token_hint") = <<"IT">>

\* C10: /api/status leaves the session store as it found it.
C10_StatusKeepsStore ==
    [][ AnsweredAtOnce("/api/status") =>
            /\ sessions' = sessions
            /\ DOMAIN sessions' = DOMAIN sessions ]_vars

\* C10 witness: two /api/status requests in a row have been answered, the
\* second for a session id that has no entry.
C10_Witness ==
    /\ resp.route = "/api/status"
    /\ ~Has(sessions, resp.sessionId)
    /\ nextRid = 2
    /\ StartsWith(logs[Len(logs) - 1].message, <<"Status checked for session: ">>)

----------------------------------------------------------------------------
(* The session store *)

\* C11: every entry of the session store has isAuthenticated = true and a
\* populated idToken and accessToken, whatever the 2xx answer of the token
\* endpoint carried.
C11_EntriesPopulated ==
    \A id \in DOMAIN sessions :
        /\ sessions[id].isAuthenticated
        /\ Truthy(sessions[id].idToken)
        /\ Truthy(sessions[id].accessToken)

\* The token request of a /callback has been answered 2xx
TokenExchangeSucceeded(calls, rid) ==
    \E i \in 1..Len(calls) :
        /\ calls[i].rid = rid
        /\ calls[i].method = "POST"
        /\ calls[i].answered
        /\ calls[i].tokenReply.ok

\* The step resumes the suspended /callback rid
ResumedStep(rid) ==
    /\ rid \in DOMAIN inflight
    /\ rid \notin DOMAIN inflight' \/ inflight'[rid] # inflight[rid]

\* C12: an entry is created, replaced or changed only by a step of a
\* /callback for that session id whose token exchange succeeded; an entry is
\* removed only by /logout on its id; every other step (/login, /api/status,
\* /, /api/logs and its disconnection, /logout-success, a failed /callback, a
\* /logout without an active session) leaves the store as it is.
C12_Lifecycle ==
    [][ /\ \A id \in DOMAIN sessions' :
               (~Has(sessions, id) \/ sessions'[id] # sessions[id]) =>
                   \E rid \in DOMAIN inflight :
                       /\ ResumedStep(rid)
                       /\ inflight[rid].sessionId = id
                       /\ TokenExchangeSucceeded(outbound', rid)
        /\ \A id \in DOMAIN sessions :
               ~Has(sessions', id) =>
                   /\ AnsweredAtOnce("/logout")
                   /\ resp'.sessionId = id
                   /\ AuthenticatedAt(sessions, id)
        /\ ( \/ resp'.route \in {"/login", "/api/status", "/", "/api/logs",
                                 "/logout-success"}
             \/ resp'.location \in {NoAuthCode, AuthFailed}
             \/ resp'.route = "/logout"
                    /\ ~AuthenticatedAt(sessions, resp'.sessionId)
             \/ logClients' # logClients )
               => (sessions' = sessions /\ DOMAIN sessions' = DOMAIN sessions) ]_vars

\* C12 witness: an /api/logs connection has been opened while the store
\* holds the session of a /callback whose token exchange succeeded.
C12_Witness ==
    /\ resp.route = "/api/logs"
    /\ \E id \in DOMAIN sessions :
           TokenExchangeSucceeded(outbound, sessions[id].obj)

----------------------------------------------------------------------------
(* /api/status and /login as state transformers *)

\* C13 as stated: /api/status changes neither the session store nor the log
\* buffer nor the subscriber list, and answers 200.
C13_StatusPureRead ==
    [][ AnsweredAtOnce("/api/status") =>
            /\ sessions' = sessions
            /\ logs' = logs
            /\ logClients' = logClients
            /\ resp'.status = 200 ]_vars

\* C13 amended: /api/status answers 200 with the counts taken before its own
\* log entry, changes neither the session store nor the subscriber list nor
\* the suspended requests nor the outbound calls, and appends exactly one
\* entry ("Status checked for session: ...") to the log buffer, which is
\* written to every open /api/logs connection.
C13_StatusOnlyLogs ==
    [][ AnsweredAtOnce("/api/status") =>
            LET e == logs'[Len(logs')]
            IN  /\ resp'.status = 200
                /\ resp'.body.logs = Len(logs)
                /\ resp'.body.sessions = Cardinality(DOMAIN sessions)
                /\ sessions' = sessions
                /\ DOMAIN sessions' = DOMAIN sessions
                /\ logClients' = logClients
                /\ inflight' = inflight
                /\ outbound' = outbound
                /\ StartsWith(e.message, <<"Status checked for session: ">>)
                /\ Len(logs) < LogLimit => logs' = Append(logs, e)
                /\ \A c \in DOMAIN sent :
                       sent'[c] = IF c \in Range(logClients)
                                  THEN Append(sent[c], e) ELSE sent[c] ]_vars

\* C13 witness: /api/status has been answered while an /api/logs connection
\* is open, and its log entry is the last one written to that connection.
C13_Witness ==
    /\ resp.route = "/api/status"
    /\ resp.status = 200
    /\ logClients # <<>>
    /\ \E c \in Range(logClients) :
           StartsWith(sent[c][Len(sent[c])].message,
                      <<"Status checked for session: ">>)

----------------------------------------------------------------------------
(* Failures *)

\* String.prototype.includes
Contains(s, sub) ==
    \E a \in 0..(Len(s) - Len(sub)) : SubSeq(s, a + 1, a + Len(sub)) = sub

\* C14: when the token exchange of a /callback has failed, that request is
\* answered with nothing but the redirect to /?error=auth_failed, and no
\* message written to an /api/logs connection contains the upstream error
\* detail.
C14_UpstreamErrorStaysServerSide ==
    \A i \in 1..Len(outbound) :
        (outbound[i].method = "POST" /\ outbound[i].answered
            /\ ~outbound[i].tokenReply.ok) =>
            LET detail == Str(ErrorMsg(outbound[i].tokenReply))
            IN  /\ resp.rid = outbound[i].rid =>
                       /\ resp.location = AuthFailed
                       /\ resp.body = NoBody
                       /\ resp.setCookie = Undefined
                /\ \A c \in DOMAIN sent :
                       \A k \in 1..Len(sent[c]) :
                           ~Contains(sent[c][k].message, detail)

\* C15: an exception thrown by a route handler, the async /callback outside
\* its try block included, is answered by the error middleware with 500 and a
\* JSON body {error, message}; the process keeps running and every request
\* received is answered in the same step or is waiting for the provider.
C15_ThrowIsAnswered500 ==
    [][ nextRid' = nextRid + 1 =>
            /\ process' = "running"
            /\ nextRid' \in DOMAIN inflight' =>
                   inflight'[nextRid'].pc \in {"token", "userinfo"}
            /\ nextRid' \notin DOMAIN inflight' => resp'.rid = nextRid'
            /\ ~IsString(resp'.req.code) =>
                   /\ resp'.status = 500
                   /\ resp'.error.error = <<"Internal server error">>
                   /\ resp'.error.message # Undefined ]_vars

\* C16: provided every outbound call eventually returns or fails, every
\* /callback request that is waiting is eventually answered with a redirect
\* to /?error=no_auth_code, /?error=auth_failed or /?auth=success, and no
\* /callback request is answered with anything else.
C16_CallbackEventuallyRedirects ==
    /\ \A rid \in 1..MaxRequests :
           (rid \in DOMAIN inflight) ~>
               (resp.rid = rid /\ resp.status = 302
                   /\ resp.location \in {NoAuthCode, AuthFailed, AuthSuccess})
    /\ [](resp.req.code # Undefined =>
              resp.status = 302
                  /\ resp.location \in {NoAuthCode, AuthFailed, AuthSuccess})

\* C17: /login answers with a redirect to the authorization URL
\* {endpoint}/protocol/openid-connect/auth carrying client_id, redirect_uri,
\* response_type=code and scope taken from the configuration, whether or not
\* the caller has a session; it leaves the session store unchanged, sets no
\* cookie and makes no outbound call.
C17_LoginRedirects ==
    [][ AnsweredAtOnce("/login") =>
            LET url == resp'.location
            IN  /\ resp'.status = 302
                /\ UrlBase(url) = keycloakConfig.endpoint
                                      \o <<"/protocol/openid-connect/auth">>
                /\ QueryParam(url, "client_id") = keycloakConfig.clientId
                /\ QueryParam(url, "redirect_uri") # Undefined
                /\ decodeURIComponent(QueryParam(url, "redirect_uri"))
                       = keycloakConfig.redirectUri
                /\ QueryParam(url, "response_type") = <<"code">>
                /\ QueryParam(url, "scope") # Undefined
                /\ decodeURIComponent(QueryParam(url, "scope"))
                       = keycloakConfig.scope
                /\ sessions' = sessions
                /\ DOMAIN sessions' = DOMAIN sessions
                /\ resp'.setCookie = Undefined
                /\ outbound' = outbound ]_vars

\* C17 witness: /login has been answered for a caller whose sessionId cookie
\* names an authenticated session.
C17_Witness ==
    /\ resp.route = "/login"
    /\ resp.status = 302
    /\ AuthenticatedAt(sessions, getSessionId(resp.req))

----------------------------------------------------------------------------
(* Outbound calls and cookies *)

\* C18: a /callback request calls the token endpoint at most once and the
\* userinfo endpoint at most once, the userinfo endpoint only after its token
\* request was answered 2xx; a /callback without code, /login, /api/status
\* and /logout make no outbound call.
C18_NoRetries ==
    [][ /\ \A rid \in 1..nextRid' :
               LET posts == {i \in 1..Len(outbound') :
                                outbound'[i].rid = rid
                                    /\ outbound'[i].method = "POST"}
                   gets  == {j \in 1..Len(outbound') :
                                outbound'[j].rid = rid
                                    /\ outbound'[j].method = "GET"}
               IN  /\ Cardinality(posts) <= 1
                   /\ Cardinality(gets) <= 1
                   /\ \A j \in gets :
                          \E i \in posts :
                              /\ i < j
                              /\ outbound'[i].answered
                              /\ outbound'[i].tokenReply.ok
        /\ ( \/ AnsweredAtOnce("/login")
             \/ AnsweredAtOnce("/api/status")
             \/ AnsweredAtOnce("/logout")
             \/ AnsweredAtOnce("/callback") /\ ~Truthy(resp'.req.code) )
               => outbound' = outbound ]_vars

\* C18 witness: a /callback has been answered after one token call and one
\* failed userinfo call, and the other request received made no call.
C18_Witness ==
    /\ resp.location = AuthSuccess
    /\ Cardinality(CallsOf(resp.rid, "POST")) = 1
    /\ Cardinality(CallsOf(resp.rid, "GET")) = 1
    /\ \E j \in CallsOf(resp.rid, "GET") : ~outbound[j].userinfoReply.ok
    /\ nextRid = 2
    /\ Len(outbound) = 2

\* C19: a response carries a Set-Cookie header only when it is the success
\* redirect of /callback, and then the header sets the sessionId cookie to the
\* resolved session id with HttpOnly, Path=/ and Max-Age=86400, or when it is
\* the redirect of /logout on an authenticated session, and then the header
\* clears the sessionId cookie (empty value, Max-Age=0).
C19_SetCookie ==
    /\ resp.location = AuthSuccess =>
           /\ HasCookie(resp.setCookie, "sessionId")
           /\ CookieValue(resp.setCookie, "sessionId") = resp.sessionId
           /\ {<<"HttpOnly">>, <<"Path=/">>, <<"Max-Age=86400">>}
                  \subseteq Range(Pairs(resp.setCookie))
    /\ resp.setCookie # Undefined =>
           \/ resp.route = "/callback" /\ resp.location = AuthSuccess
           \/ /\ resp.route = "/logout"
              /\ resp.location # <<"/logout-success">>
              /\ HasCookie(resp.setCookie, "sessionId")
              /\ CookieValue(resp.setCookie, "sessionId") = <<>>
              /\ <<"Max-Age=0">> \in Range(Pairs(resp.setCookie))

\* C20: when the request has a sessionId cookie, the resolved session id is
\* the value of that cookie, unchanged whatever it contains, and a request
\* whose sessionId cookie has another value resolves to another id.
C20_CookieVerbatim ==
    (resp.route = "/api/status" /\ HasCookie(resp.req.cookie, "sessionId")) =>
        /\ resp.body.sessionId = CookieValue(resp.req.cookie, "sessionId")
        /\ \A v \in Strings(ValChars, MaxValLen) :
               v # CookieValue(resp.req.cookie, "sessionId") =>
                   getSessionId([NoRequest EXCEPT !.cookie = CookieOf(v)])
                       # resp.body.sessionId

----------------------------------------------------------------------------
(* Overlapping requests *)

\* The /callback rid is suspended at its userinfo request
AwaitsUserinfo(frames, rid) ==
    rid \in DOMAIN frames /\ frames[rid].pc = "userinfo"

\* C21 as stated: while the userinfo request of a /callback is pending, the
\* store holds an authenticated entry for its session id, and /api/status
\* for that id reports authenticated without a username.
C21_AuthenticatedWhilePending ==
    \A rid \in DOMAIN inflight :
        AwaitsUserinfo(inflight, rid) =>
            /\ AuthenticatedAt(sessions, inflight[rid].sessionId)
            /\ StatusPayload(sessions, logs, inflight[rid].sessionId).user
                   = <<"Authenticated">>

\* C21 amended: the step that receives the 2xx token answer stores the
\* authenticated session, without userInfo, under the resolved id and sends
\* the userinfo request without answering; while that request is pending the
\* id stops being authenticated only by a /logout on it; and a /api/status
\* for the id, while the store still holds that session object, reports
\* authenticated without a username.
C21_StoredBeforeUserinfo ==
    [][ /\ \A rid \in DOMAIN inflight' :
               (AwaitsUserinfo(inflight', rid) /\ ~AwaitsUserinfo(inflight, rid)) =>
                   LET sid == inflight'[rid].sessionId
                   IN  /\ AuthenticatedAt(sessions', sid)
                       /\ sessions'[sid].obj = rid
                       /\ sessions'[sid].userInfo = NoUserInfo
                       /\ resp' = NoResponse
                       /\ \E j \in 1..Len(outbound') :
                              /\ outbound'[j].rid = rid
                              /\ outbound'[j].method = "GET"
                              /\ ~outbound'[j].answered
        /\ \A rid \in DOMAIN inflight :
               (AwaitsUserinfo(inflight, rid)
                   /\ AuthenticatedAt(sessions, inflight[rid].sessionId)
                   /\ ~AuthenticatedAt(sessions', inflight[rid].sessionId)) =>
                   /\ AnsweredAtOnce("/logout")
                   /\ resp'.sessionId = inflight[rid].sessionId
        /\ \A rid \in DOMAIN inflight :
               (AnsweredAtOnce("/api/status")
                   /\ AwaitsUserinfo(inflight, rid)
                   /\ resp'.sessionId = inflight[rid].sessionId
                   /\ Has(sessions, resp'.sessionId)
                   /\ sessions[resp'.sessionId].obj = rid) =>
                   /\ resp'.body.user = <<"Authenticated">>
                   /\ resp'.body.userInfo = NoUserInfo ]_vars

\* C21 witness: /api/status has reported authenticated, without userInfo, for
\* the session id of a /callback whose userinfo request is still pending.
C21_Witness ==
    /\ resp.route = "/api/status"
    /\ resp.body.user = <<"Authenticated">>
    /\ resp.body.userInfo = NoUserInfo
    /\ \E rid \in DOMAIN inflight :
           /\ AwaitsUserinfo(inflight, rid)
           /\ inflight[rid].sessionId = resp.sessionId

\* C22: no session is stored by a /callback that was already in flight when
\* a /logout for its session id was answered, so that after a /logout for S
\* only a /callback that arrived later can make S authenticated.
C22_NoEntryAfterLogout ==
    [][ \A id \in DOMAIN sessions' :
            (~Has(sessions, id) \/ sessions'[id].obj # sessions[id].obj) =>
                ~( /\ sessions'[id].obj \in DOMAIN inflight
                   /\ inflight[sessions'[id].obj].loggedOut ) ]_vars

----------------------------------------------------------------------------
(* Session ids of /callback *)

\* The request carries neither a sessionId cookie nor an Authorization header
Anonymous(req) == getSessionId(req) = <<"default">>

\* C23: the store never holds an entry under "default"; a /callback whose
\* resolved id is "default" works, and stores, under a minted id; a client
\* without sessionId cookie and Authorization header is reported not
\* authenticated by /api/status and sent to /logout-success by /logout.
C23_NoDefaultEntry ==
    [][ /\ ~Has(sessions', <<"default">>)
        /\ \A rid \in DOMAIN inflight' :
               /\ inflight'[rid].sessionId # <<"default">>
               /\ Anonymous(inflight'[rid].req) =>
                      inflight'[rid].sessionId \in GenIds
        /\ (AnsweredAtOnce("/api/status") /\ Anonymous(resp'.req)) =>
               /\ resp'.body.user = <<"Not Authenticated">>
               /\ resp'.body.userInfo = NoUserInfo
        /\ (AnsweredAtOnce("/logout") /\ Anonymous(resp'.req)) =>
               /\ resp'.location = <<"/logout-success">>
               /\ sessions' = sessions ]_vars

\* C23 witness: after the /callback of a client without cookie has stored its
\* session, /api/status of a client without cookie reports not authenticated.
C23_Witness ==
    /\ resp.route = "/api/status"
    /\ Anonymous(resp.req)
    /\ resp.body.user = <<"Not Authenticated">>
    /\ \E id \in DOMAIN sessions :
           \E i \in CallsOf(sessions[id].obj, "POST") :
               outbound[i].form.code = <<"abc">> /\ id = <<"m2">>

\* C24: a /callback that resolves an id other than "default" works under
\* that id, never under a minted one: the session it stores is under that id,
\* and the cookie set by its success redirect carries that id.
C24_ClientIdKept ==
    /\ \A rid \in DOMAIN inflight :
           ~Anonymous(inflight[rid].req) =>
               inflight[rid].sessionId = getSessionId(inflight[rid].req)
    /\ \A id \in DOMAIN sessions :
           \A rid \in DOMAIN inflight :
               (sessions[id].obj = rid /\ ~Anonymous(inflight[rid].req)) =>
                   id = getSessionId(inflight[rid].req)
    /\ (resp.location = AuthSuccess /\ ~Anonymous(resp.req)) =>
           /\ resp.sessionId = getSessionId(resp.req)
           /\ \A id \in DOMAIN sessions :
                  sessions[id].obj = resp.rid => id = getSessionId(resp.req)
           /\ HasCookie(resp.setCookie, "sessionId")
           /\ CookieValue(resp.setCookie, "sessionId") = getSessionId(resp.req)

\* C25: a /callback that resolved the fallback id stores its session under
\* an id that has no entry in the store at that moment.
C25_MintedIdIsFree ==
    [][ \A rid \in DOMAIN inflight :
            LET sid == inflight[rid].sessionId
            IN  ( /\ Anonymous(inflight[rid].req)
                  /\ Has(sessions', sid)
                  /\ sessions'[sid].obj = rid
                  /\ inflight[rid].pc = "token" )
                    => ~Has(sessions, sid) ]_vars

\* C26 as stated: when a /callback for a session id that had no entry when
\* the request arrived sends a failure redirect, the store has no entry for
\* that id.
C26_FailureLeavesNoEntry ==
    [][ /\ (AnsweredAtOnce("/callback") /\ resp'.location = NoAuthCode
               /\ ~Has(sessions, resp'.sessionId)) =>
               ~Has(sessions', resp'.sessionId)
        /\ (AuthFailedStep
               /\ ~Has(inflight[resp'.rid].storeAtArrival, resp'.sessionId)) =>
               ~Has(sessions', resp'.sessionId) ]_vars

\* C26 amended: such a failed /callback puts no entry under the id; without
\* code the id has no entry when the redirect is sent; after a failed token
\* exchange an entry the id has by then was stored, while the token request
\* was pending, by another /callback whose token exchange succeeded.
C26_FailureAddsNoEntry ==
    [][ /\ (AnsweredAtOnce("/callback") /\ resp'.location = NoAuthCode
               /\ ~Has(sessions, resp'.sessionId)) =>
               ~Has(sessions', resp'.sessionId)
        /\ (AuthFailedStep
               /\ ~Has(inflight[resp'.rid].storeAtArrival, resp'.sessionId)) =>
               /\ Has(sessions', resp'.sessionId) = Has(sessions, resp'.sessionId)
               /\ Has(sessions', resp'.sessionId) =>
                      /\ sessions'[resp'.sessionId].obj # resp'.rid
                      /\ TokenExchangeSucceeded(outbound',
                                                sessions'[resp'.sessionId].obj) ]_vars

\* C26 witness: a /callback has been answered with /?error=auth_failed after
\* a non-2xx token answer, and its session id has no entry.
C26_Witness ==
    /\ resp.location = AuthFailed
    /\ ~Has(sessions, resp.sessionId)
    /\ \E i \in CallsOf(resp.rid, "POST") :
           outbound[i].answered /\ outbound[i].tokenReply.hasResponse

\* C27: when the token exchange of a /callback succeeds for a session id
\* that already has an entry, the entry becomes the new session alone: the
\* tokens of the new answer, no userInfo, no other entry touched; and an
\* entry has userInfo only from the successful userinfo request of the
\* /callback that stored it.
C27_ReplacesWholeEntry ==
    [][ /\ \A rid \in DOMAIN inflight :
               LET sid == inflight[rid].sessionId
               IN  ( /\ inflight[rid].pc = "token"
                     /\ AwaitsUserinfo(inflight', rid)
                     /\ Has(sessions, sid) ) =>
                       /\ \E i \in 1..Len(outbound') :
                              /\ outbound'[i].rid = rid
                              /\ outbound'[i].method = "POST"
                              /\ sessions'[sid] =
                                     [ idToken |-> outbound'[i].tokenReply.id_token,
                                       accessToken |->
                                           outbound'[i].tokenReply.access_token,
                                       refreshToken |->
                                           outbound'[i].tokenReply.refresh_token,
                                       userInfo |-> NoUserInfo,
                                       isAuthenticated |-> TRUE,
                                       obj |-> rid ]
                       /\ DOMAIN sessions' = DOMAIN sessions
                       /\ \A id \in DOMAIN sessions :
                              id # sid => sessions'[id] = sessions[id]
        /\ \A id \in DOMAIN sessions' :
               sessions'[id].userInfo # NoUserInfo =>
                   \E j \in 1..Len(outbound') :
                       /\ outbound'[j].rid = sessions'[id].obj
                       /\ outbound'[j].method = "GET"
                       /\ outbound'[j].answered
                       /\ outbound'[j].userinfoReply.ok
                       /\ sessions'[id].userInfo
                              = <<outbound'[j].userinfoReply.data>> ]_vars

\* C27 witness: the only entry of the store was stored by the second
\* /callback and has no userInfo, after the first /callback had stored an
\* entry and fetched its userInfo.
C27_Witness ==
    /\ Cardinality(DOMAIN sessions) = 1
    /\ \A id \in DOMAIN sessions :
           sessions[id].obj = 2 /\ sessions[id].userInfo = NoUserInfo
    /\ \E j \in CallsOf(1, "GET") :
           outbound[j].answered /\ outbound[j].userinfoReply.ok
    /\ AwaitsUserinfo(inflight, 2)

----------------------------------------------------------------------------
(* Independence of /callback from /login.  The outcome of a step of          *)
(* /callback is observed through views that leave out request numbers: the  *)
(* response, each store entry, and the frame of the request when suspended.  *)

RespView(r) == <<r.status, r.location, r.setCookie, r.error>>

RespViews ==
    {0, 200, 302, 500}
        \X {Undefined, NoAuthCode, AuthFailed, AuthSuccess}
        \X ({Undefined} \cup {SessionCookie(id) : id \in GenIds})
        \X {NoError, ServerError(0, NoRequest, Undefined,
                                 <<"authCode.substring is not a function">>).error}

EntryView(store, id) == [Get(store, id) EXCEPT !.obj = 0]

EntryViews ==
    {Absent} \cup
        { [NewSession(0, reply) EXCEPT !.userInfo = u] :
              reply \in {r \in TokenReplies : r.ok},
              u \in {NoUserInfo, <<NoNameClaims>>}
                       \cup {<<ClaimsOf(r.access_token)>> : r \in TokenReplies} }

FrameViews == (GenIds \X {"token", "userinfo", "rejected"}) \cup {<<>>}

FrameView(frames, rid) ==
    IF rid \in DOMAIN frames
    THEN <<frames[rid].sessionId, frames[rid].pc>> ELSE <<>>

\* What GET /callback can do on arrival, per request
ArrivalOutcomes ==
    [ req \in Requests |->
        [ resp    |-> {v \in RespViews :
                          ENABLED (Callback(req) /\ RespView(resp') = v)},
          entries |-> [id \in GenIds |->
                          {e \in EntryViews :
                              ENABLED (Callback(req)
                                          /\ EntryView(sessions', id) = e)}],
          frame   |-> {f \in FrameViews :
                          ENABLED (Callback(req)
                                      /\ FrameView(inflight', nextRid') = f)} ] ]

\* What a suspended /callback can do when its token request settles
TokenOutcomes ==
    [ rid \in DOMAIN inflight |->
        [ resp    |-> {v \in RespViews :
                          ENABLED (TokenReturns(rid) /\ RespView(resp') = v)},
          entries |-> [id \in GenIds |->
                          {e \in EntryViews :
                              ENABLED (TokenReturns(rid)
                                          /\ EntryView(sessions', id) = e)}],
          frame   |-> {f \in FrameViews :
                          ENABLED (TokenReturns(rid)
                                      /\ FrameView(inflight', rid) = f)} ] ]

\* What a suspended /callback can do when its userinfo request settles
UserinfoOutcomes ==
    [ rid \in DOMAIN inflight |->
        [ resp    |-> {v \in RespViews :
                          ENABLED (UserinfoReturns(rid) /\ RespView(resp') = v)},
          entries |-> [id \in GenIds |->
                          {e \in EntryViews :
                              ENABLED (UserinfoReturns(rid)
                                          /\ EntryView(sessions', id) = e)}],
          frame   |-> {f \in FrameViews :
                          ENABLED (UserinfoReturns(rid)
                                      /\ FrameView(inflight', rid) = f)} ] ]

\* C28: a /login changes nothing that /callback reads (store, suspended
\* requests, outbound calls), and each step of /callback has the same
\* possible outcomes (response, store entries, suspension) after the /login
\* as before it; every outcome of /callback lies in the views compared.
C28_LoginInvisibleToCallback ==
    [][ /\ AnsweredAtOnce("/login") =>
               /\ sessions' = sessions
               /\ inflight' = inflight
               /\ outbound' = outbound
               /\ process' = process
               /\ TokenOutcomes' = TokenOutcomes
               /\ UserinfoOutcomes' = UserinfoOutcomes
               /\ nextRid' < MaxRequests => ArrivalOutcomes' = ArrivalOutcomes
        /\ resp'.route \in {"/callback", "error middleware"} =>
               RespView(resp') \in RespViews
        /\ \A id \in DOMAIN sessions' :
               id \in GenIds /\ EntryView(sessions', id) \in EntryViews
        /\ \A rid \in DOMAIN inflight' :
               FrameView(inflight', rid) \in FrameViews ]_vars

\* C28 witness: a /callback that arrived after a /login has been answered
\* with the success redirect and its session is in the store.
C28_Witness ==
    /\ resp.location = AuthSuccess
    /\ resp.rid = 2
    /\ AuthenticatedAt(sessions, resp.sessionId)
    /\ \E i \in 1..Len(logs) :
           logs[i].message = <<"Redirecting to Keycloak for authentication...">>

----------------------------------------------------------------------------
\* C29: the body of /api/status describes the store as it is when the request
\* arrives: not-authenticated text and null userInfo for an absent session,
\* the plain authenticated text and null userInfo for a session without
\* userInfo, and for a session with userInfo the stored claims and the name
\* preferred_username, else email, else 'User'; sessions is the number of
\* entries and sessionId the resolved id.
C29_StatusReflectsStore ==
    [][ AnsweredAtOnce("/api/status") =>
            LET body  == resp'.body
                id    == getSessionId(resp'.req)
                entry == Get(sessions, id)
                name  == IF entry.userInfo = NoUserInfo THEN <<>>
                         ELSE IF Truthy(entry.userInfo[1].preferred_username)
                         THEN entry.userInfo[1].preferred_username
                         ELSE IF Truthy(entry.userInfo[1].email)
                         THEN entry.userInfo[1].email
                         ELSE <<"User">>
            IN  /\ body.sessionId = id
                /\ body.sessions = Cardinality(DOMAIN sessions)
                /\ ~Has(sessions, id) =>
                       /\ body.user = <<"Not Authenticated">>
                       /\ body.userInfo = NoUserInfo
                /\ AuthenticatedAt(sessions, id) /\ entry.userInfo = NoUserInfo =>
                       /\ body.user = <<"Authenticated">>
                       /\ body.userInfo = NoUserInfo
                /\ AuthenticatedAt(sessions, id) /\ entry.userInfo # NoUserInfo =>
                       /\ body.user = <<"Authenticated", " ", "(">> \o name \o <<")">>
                       /\ body.userInfo = entry.userInfo ]_vars

\* C29 witness: /api/status has answered for a session whose stored claims
\* hold neither a username nor an e-mail address, naming it 'User'.
C29_Witness ==
    /\ resp.route = "/api/status"
    /\ AuthenticatedAt(sessions, resp.sessionId)
    /\ sessions[resp.sessionId].userInfo = <<NoNameClaims>>
    /\ resp.body.user = <<"Authenticated", " ", "(", "User", ")">>
    /\ resp.body.userInfo = <<NoNameClaims>>

----------------------------------------------------------------------------
(* The log buffer at its limit: the server has run for a while and the      *)
(* buffer is one entry short of the limit when the requests arrive.         *)

\* The buffer after app.listen and n - 6 requests of an anonymous client,
\* /api/status and /login in turn
FilledLogs(n) ==
    [ i \in 1..n |->
        IF i <= Len(StartupLogs) THEN StartupLogs[i]
        ELSE IF i % 2 = 1
        THEN [message |-> <<"Status checked for session: ">>
                              \o Substring(<<"default">>, 0, 8) \o <<"...">>,
              type |-> "info"]
        ELSE [message |-> <<"Redirecting to Keycloak for authentication...">>,
              type |-> "info"] ]

InitLog ==
    /\ sessions = <<>>
    /\ logs = FilledLogs(LogLimit - 1)
    /\ logClients = <<>>
    /\ sent = <<>>
    /\ inflight = <<>>
    /\ outbound = <<>>
    /\ resp = NoResponse
    /\ nextRid = 0
    /\ process = "running"
    /\ broken = <<>>

SpecLog == InitLog /\ [][Next]_vars

\* The entries a step has added, read off what a client that stays connected
\* was sent during the step
Added(client) == SubSeq(sent'[client], Len(sent[client]) + 1, Len(sent'[client]))

\* The last n entries of a sequence (all of it when it is shorter)
Latest(s, n) == SubSeq(s, IF Len(s) > n THEN Len(s) - n + 1 ELSE 1, Len(s))

\* C30: the buffer never holds more than 100 entries, and after a step that
\* adds entries it holds the latest 100 of the old buffer followed by the
\* added entries, in the order they were added.
C30_LatestHundredInOrder ==
    [][ /\ Len(logs) <= LogLimit
        /\ Len(logs') <= LogLimit
        /\ \A client \in Range(logClients) \cap Range(logClients') :
               logs' = Latest(logs \o Added(client), LogLimit) ]_vars

\* C30 witness: with a client connected, an entry was added to the full
\* buffer and the oldest entry is gone.
C30_Witness ==
    /\ Len(logs) = LogLimit
    /\ logs[1] # StartupLogs[1]
    /\ \E client \in Range(logClients) :
           /\ Len(sent[client]) > LogLimit
           /\ sent[client][Len(sent[client])] = logs[LogLimit]

----------------------------------------------------------------------------
(* Subscribers whose write throws: the server has one /api/logs connection  *)
(* (client 0) when the requests arrive, and the write of any connection may *)
(* start to throw.  The requests are those that need no provider call.      *)

\* client.write of this connection throws from now on
ClientBreaks(client) ==
    /\ Running
    /\ client \in Range(logClients)
    /\ client \notin DOMAIN broken
    /\ broken' = broken @@ (client :> 0)
    /\ resp' = NoResponse
    /\ UNCHANGED <<sessions, logs, logClients, sent, inflight, outbound, nextRid,
                   process>>

\* The server after app.listen and one GET /api/logs
InitBroken ==
    LET L1 == addLog([logs |-> StartupLogs, sent |-> (0 :> StartupLogs),
                      logClients |-> <<0>>, broken |-> <<>>],
                     <<"Log client connected">>, "success")
    IN  /\ sessions = <<>>
        /\ logs = L1.logs
        /\ logClients = L1.logClients
        /\ sent = L1.sent
        /\ inflight = <<>>
        /\ outbound = <<>>
        /\ resp = NoResponse
        /\ nextRid = 0
        /\ process = "running"
        /\ broken = L1.broken

\* The routes that log without calling the provider, the close of a
\* connection, and a write starting to throw
NextBroken ==
    \/ Root
    \/ \E req \in PlainRequests : Login(req)
    \/ LogoutSuccess
    \/ \E req \in PlainRequests : Status(req)
    \/ \E req \in PlainRequests : Logout(req)
    \/ LogsConnect
    \/ \E client \in Range(logClients) : LogsClose(client)
    \/ \E client \in Range(logClients) : ClientBreaks(client)

SpecBroken == InitBroken /\ [][NextBroken]_vars

\* The number of throws of client.write caught during the step
Thrown(client) ==
    IF client \in DOMAIN broken THEN broken'[client] - broken[client] ELSE 0

\* A throwing write keeps the entry neither from the buffer nor from the
\* other subscribers: they are sent as many entries as the throwing client
\* missed, and these are the latest entries of the buffer
WriteFailureIsContained ==
    \A client \in DOMAIN broken :
        Thrown(client) > 0 =>
            /\ Len(logs') = Len(logs) + Thrown(client)
            /\ \A other \in (Range(logClients) \cap Range(logClients'))
                                \ DOMAIN broken' :
                   /\ Len(sent'[other]) = Len(sent[other]) + Thrown(client)
                   /\ Latest(sent'[other], Thrown(client))
                          = Latest(logs', Thrown(client))

\* C31: a subscriber whose write has thrown is no longer in the subscriber
\* list once the next request has been handled, and a throwing write keeps
\* the entry neither from the other subscribers nor from the buffer.
C31_DeadClientsCleanedUp ==
    [][ /\ nextRid' = nextRid + 1 =>
               \A client \in DOMAIN broken :
                   broken[client] > 0 => client \notin Range(logClients')
        /\ WriteFailureIsContained ]_vars

----------------------------------------------------------------------------
\* The connections that were opened and are not in logClients any more
Closed == DOMAIN sent \ Range(logClients)

\* C32: a connection that closes leaves the subscriber list, the others stay
\* in it in their order, and from then on (the "disconnected" entry
\* included) nothing is written to it and it does not come back.
C32_ClosedClientGetsNothing ==
    [][ /\ \A client \in Range(logClients) \ Range(logClients') :
               /\ sent'[client] = sent[client]
               /\ logClients' = SelectSeq(logClients, LAMBDA c : c # client)
               /\ logs'[Len(logs')].message = <<"Log client disconnected">>
        /\ \A client \in Closed :
               /\ client \in DOMAIN sent'
               /\ sent'[client] = sent[client]
               /\ client \notin Range(logClients') ]_vars

\* C32 witness: one connection has closed, another is still registered and
\* was sent the "disconnected" entry, which the closed one was not.
C32_Witness ==
    \E client \in Closed, other \in Range(logClients) :
        /\ sent[other][Len(sent[other])].message = <<"Log client disconnected">>
        /\ sent[client][Len(sent[client])].message # <<"Log client disconnected">>
        /\ Len(sent[client]) < Len(logs)

----------------------------------------------------------------------------
\* The entries the step appended to the buffer (the buffer is below its limit)
Appended == SubSeq(logs', Len(logs) + 1, Len(logs'))

----------------------------------------------------------------------------
\* The userinfo requests that were answered with claims
UserinfoAnswers ==
    {i \in 1..Len(outbound) :
        /\ outbound[i].method = "GET"
        /\ outbound[i].answered
        /\ outbound[i].userinfoReply.ok}

\* C34: the userInfo of a stored session is the answer to a userinfo request
\* made with that session's accessToken by the /callback that wrote the
\* entry.
C34_UserInfoFetchedWithOwnToken ==
    \A id \in DOMAIN sessions :
        sessions[id].userInfo # NoUserInfo =>
            \E i \in UserinfoAnswers :
                /\ outbound[i].userinfoReply.data = sessions[id].userInfo[1]
                /\ outbound[i].authorization
                       = <<"Bearer", " ">> \o Str(sessions[id].accessToken)
                /\ outbound[i].rid = sessions[id].obj

\* C34 witness: two /callback requests for one session id overlapped with
\* different access tokens, both userinfo requests were answered with
\* claims, and the entry holds userInfo.
C34_Witness ==
    /\ Cardinality(DOMAIN sessions) = 1
    /\ Len(outbound) = 4
    /\ outbound[1].method = "POST" /\ outbound[2].method = "POST"
    /\ \E i, j \in UserinfoAnswers :
           /\ outbound[i].rid # outbound[j].rid
           /\ outbound[i].authorization # outbound[j].authorization
    /\ \A id \in DOMAIN sessions : sessions[id].userInfo # NoUserInfo

----------------------------------------------------------------------------
\* The step leaves the entry (or the absence of an entry) of every session
\* id other than the given one as it is
OthersUntouched(sessionId) ==
    \A id \in (DOMAIN sessions \cup DOMAIN sessions') \ {sessionId} :
        /\ Has(sessions', id) = Has(sessions, id)
        /\ Get(sessions', id) = Get(sessions, id)

----------------------------------------------------------------------------
(* Token confinement *)

\* The token values the provider issues
IdTokens == {r.id_token : r \in {t \in TokenReplies : Truthy(t.id_token)}}

AccessTokens ==
    {r.access_token : r \in {t \in TokenReplies : Truthy(t.access_token)}}

RefreshTokens ==
    {r.refresh_token : r \in {t \in TokenReplies : Truthy(t.refresh_token)}}

TokenValues == IdTokens \cup AccessTokens \cup RefreshTokens

\* The text holds one of the values
Carries(text, values) ==
    \E a \in 1..Len(text) :
        \E v \in values :
            /\ text[a] = Head(v)
            /\ a + Len(v) - 1 <= Len(text)
            /\ SubSeq(text, a, a + Len(v) - 1) = v

\* No entry of the sequence of log entries holds a token value
NoTokenIn(entries) ==
    \A i \in 1..Len(entries) : ~Carries(entries[i].message, TokenValues)

\* The response carries no token value but the id token, as the
\* id_token_hint that ends the /logout redirect
ResponseConfines(r) ==
    /\ ~Carries(r.body.server, TokenValues)
    /\ ~Carries(r.body.user, TokenValues)
    /\ ~Carries(r.body.sessionId, TokenValues)
    /\ \A i \in 1..Len(r.body.userInfo) :
           /\ ~Carries(r.body.userInfo[i].preferred_username, TokenValues)
           /\ ~Carries(r.body.userInfo[i].email, TokenValues)
    /\ ~Carries(r.setCookie, TokenValues)
    /\ ~Carries(r.error.message, TokenValues)
    /\ ~Carries(r.location, AccessTokens \cup RefreshTokens)
    /\ Carries(r.location, IdTokens) =>
           /\ r.route = "/logout"
           /\ \E idToken \in IdTokens :
                  r.location
                      = LogoutUrl([Absent EXCEPT !.idToken = <<>>])
                            \o <<"&", "id_token_hint", "=">> \o idToken

\* The outbound request carries no token value but the access token, as the
\* bearer of the userinfo request
CallConfines(call) ==
    /\ ~Carries(call.url, TokenValues)
    /\ ~Carries(call.form.code, TokenValues)
    /\ ~Carries(call.authorization, IdTokens \cup RefreshTokens)
    /\ Carries(call.authorization, AccessTokens) =>
           /\ call.method = "GET"
           /\ call.url
                  = keycloakConfig.endpoint \o <<"/protocol/openid-connect/userinfo">>

----------------------------------------------------------------------------
(* Round trip of /callback and /logout while another client signs in: the   *)
(* /callback of a client without session id (request 0, minted id m2) is    *)
(* waiting for its token answer when the requests arrive.                    *)

OtherClientRequest ==
    [cookie |-> Undefined, authorization |-> Undefined, code |-> <<"abc">>]

InitRoundTrip ==
    LET L1 == addLog([logs |-> StartupLogs, sent |-> <<>>, logClients |-> <<>>,
                      broken |-> <<>>],
                     <<"Authorization code received: ">>
                         \o Substring(OtherClientRequest.code, 0, 20) \o <<"...">>,
                     "success")
        L2 == addLog(L1, <<"Exchanging code for access tokens...">>, "info")
    IN  /\ sessions = <<>>
        /\ logs = L2.logs
        /\ logClients = L2.logClients
        /\ sent = L2.sent
        /\ inflight = Suspend(<<>>, 0,
                              Frame(OtherClientRequest, <<"m2">>,
                                    OtherClientRequest.code, "token",
                                    Undefined, <<>>))
        /\ outbound = <<TokenCall(0, OtherClientRequest.code)>>
        /\ resp = NoResponse
        /\ nextRid = 0
        /\ process = "running"
        /\ broken = L2.broken

\* The routes that write the store, /callback with a code that is a string,
\* and the continuations of /callback
NextRoundTrip ==
    \/ \E req \in {r \in Requests : r.code = OtherClientRequest.code} :
           Callback(req)
    \/ \E rid \in DOMAIN inflight : TokenReturns(rid)
    \/ \E rid \in DOMAIN inflight : UserinfoReturns(rid)
    \/ \E req \in PlainRequests : Logout(req)

SpecRoundTrip == InitRoundTrip /\ [][NextRoundTrip]_vars

\* The step is a /logout of a session whose /callback is over
LogoutAfterCallback ==
    /\ AnsweredAtOnce("/logout")
    /\ AuthenticatedAt(sessions, getSessionId(resp'.req))
    /\ sessions[getSessionId(resp'.req)].obj \notin DOMAIN inflight

\* The stores found by the /callback that wrote the entry of a session id
EarlierStores(sessionId) ==
    {outbound[i].storeAtArrival :
        i \in CallsOf(sessions[sessionId].obj, "POST")}

\* C37 as stated: when /logout follows the successful /callback of a session
\* id that had no entry when the /callback arrived, the store is again what
\* that /callback found.
C37_RoundTrip ==
    [][ LogoutAfterCallback =>
            \A earlier \in EarlierStores(getSessionId(resp'.req)) :
                ~Has(earlier, getSessionId(resp'.req)) => sessions' = earlier
      ]_vars

\* C37 amended: after that /logout the session id has no entry again and the
\* entries of the other ids are as the step found them; the store is what
\* the /callback found whenever the other ids' entries are still as they
\* were then.
C37_RoundTripOfOwnEntry ==
    [][ LogoutAfterCallback =>
            LET sessionId == getSessionId(resp'.req)
            IN  /\ ~Has(sessions', sessionId)
                /\ OthersUntouched(sessionId)
                /\ \A earlier \in EarlierStores(sessionId) :
                       (/\ ~Has(earlier, sessionId)
                        /\ \A id \in (DOMAIN sessions \cup DOMAIN earlier)
                                         \ {sessionId} :
                               /\ Has(sessions, id) = Has(earlier, id)
                               /\ Get(sessions, id) = Get(earlier, id))
                           => sessions' = earlier ]_vars

\* C37 witness: /logout has answered after the /callback of its session id,
\* and the store, which holds another client's entry, is the one that
\* /callback found.
C37_Witness ==
    /\ resp.route = "/logout"
    /\ Carries(resp.location, IdTokens)
    /\ sessions # <<>>
    /\ ~Has(sessions, resp.sessionId)
    /\ \E i \in 1..Len(outbound) :
           /\ outbound[i].rid = 1
           /\ outbound[i].method = "POST"
           /\ outbound[i].tokenReply.ok
           /\ outbound[i].storeAtArrival = sessions

====
